---- MODULE Spec2Model ----
(***************************************************************************)
(* A model of the request pipeline of dnsforward.Server                    *)
(* (src/dnsforward/dnsforward.go): the six stages run by handleDNSRequest  *)
(* over one dnsContext, the response builders they call, and Server.Close, *)
(* which may run between any two stages of an in-flight request.           *)
(*                                                                         *)
(* External collaborators (the filter engine, the upstream proxy, the      *)
(* query log, stats) are modelled by what they hand back: every outcome is *)
(* drawn with \E from a small set.  Counters record each call made to them.*)
(***************************************************************************)
EXTENDS Integers, Sequences, FiniteSets, TLC

\* ------------------------------------------------------------------ bounds
\* Longest Answer section an upstream response carries.
MaxAnswers == 2

\* Lifecycle calls the one caller of SpecLife makes.
MaxLifeCalls == 3

\* Lifecycle calls each of the two callers of SpecRace makes.
MaxRaceCalls == 1

\* Longest Answer section of the responses the DNSSEC stage is applied to.
MaxStripLen == 3

\* Longest Answer section of the responses stage 5 is applied to in SpecResp.
MaxRespLen == 3

\* Longest Answer section of the responses the hook is called with.
MaxHookLen == 3

\* Longest list of the RuleManager: no Append is made to a longer one.
MaxRules == 3

\* ------------------------------------------------------------ domain names
\* A domain name as the string without its final dot plus the flag "ends
\* with a dot", so that dns.Fqdn and strings.TrimSuffix(.., ".") are
\* conversions and not the identity.
MkName(s) == [base |-> s, fq |-> FALSE]
EmptyName == MkName("")
Fqdn(n) == [n EXCEPT !.fq = TRUE]
TrimSuffixDot(n) == [n EXCEPT !.fq = FALSE]

CanaryName == Fqdn(MkName("use-application-dns.net"))
HostName == Fqdn(MkName("alias.corp"))
CanonHost == MkName("real.corp")
ReverseHostName == Fqdn(MkName("host.lan"))
QNames == {CanaryName, HostName}
QTypes == {"A", "AAAA", "ANY"}

\* net.IP: its length in bytes and whether To4() is non-nil.
NoIP == [addr |-> "nil", v4 |-> FALSE, len |-> 0]
IP4 == [addr |-> "1.2.3.4", v4 |-> TRUE, len |-> 4]
IP6 == [addr |-> "2001:db8::1", v4 |-> FALSE, len |-> 16]
IPv4zero == [addr |-> "0.0.0.0", v4 |-> TRUE, len |-> 4]
IPv6zero == [addr |-> "::", v4 |-> FALSE, len |-> 16]
UpstreamIP == [addr |-> "93.184.216.34", v4 |-> TRUE, len |-> 4]

\* ---------------------------------------------------------------- messages
\* dns.Question; the zero value is what an unset dnsContext.origQuestion holds.
ZeroQuestion == [name |-> EmptyName, qtype |-> "None"]

\* The EDNS0 state of a message: no OPT record, OPT with DO clear, OPT with DO set.
OptStates == {"none", "do0", "do1"}

\* A nil *dns.Msg.
NoMsg == [nil |-> TRUE]

\* A resource record: header name, type and rdata.
RR(type, name, data) == [type |-> type, name |-> name, data |-> data]

\* dns.Msg.SetRcode(request, rcode), which is SetReply plus the rcode: the
\* reply copies the id and the question of the request.  "by" records who
\* built the message ("core", "proxy" for the proxy library, "upstream").
SetRcode(request, rcode) ==
    [id |-> request.id, rcode |-> rcode, ra |-> FALSE, compress |-> FALSE,
     q |-> request.q, answer |-> <<>>, ns |-> <<>>, opt |-> "none", by |-> "core"]

SetReply(request) == SetRcode(request, "NoError")

\* makeResponse without its call of SetReply: the fresh message keeps id 0 and
\* an empty question.
makeResponse_NoSetReply(req) ==
    [SetReply(req) EXCEPT !.id = 0, !.q = ZeroQuestion, !.ra = TRUE, !.compress = TRUE]

makeResponse(req) == [SetReply(req) EXCEPT !.ra = TRUE, !.compress = TRUE]

genSOA(request) == <<RR("SOA", request.q.name, "fake-for-negative-caching.adguard.com.")>>

genNXDomain(request) ==
    [SetRcode(request, "NameError") EXCEPT !.ra = TRUE, !.ns = genSOA(request)]

genServerFailure(request) ==
    [SetRcode(request, "ServerFailure") EXCEPT !.ra = TRUE]

genAAnswer(req, ip) == RR("A", req.q.name, ip)
genAAAAAnswer(req, ip) == RR("AAAA", req.q.name, ip)
genCNAMEAnswer(req, cname) == RR("CNAME", req.q.name, Fqdn(cname))

genARecord(request, ip) ==
    [makeResponse(request) EXCEPT !.answer = <<genAAnswer(request, ip)>>]

genAAAARecord(request, ip) ==
    [makeResponse(request) EXCEPT !.answer = <<genAAAAAnswer(request, ip)>>]

genResponseWithIP(req, ip) ==
    IF req.q.qtype = "A" /\ ip.v4 THEN genARecord(req, ip)
    ELSE IF req.q.qtype = "AAAA" /\ ip.len = 16 /\ ~ip.v4 THEN genAAAARecord(req, ip)
    ELSE makeResponse(req)

\* proxy.CheckDisabledAAAARequest(d, true): the proxy library's empty
\* NOERROR reply to the request.
genEmptyNoError(request) ==
    [SetRcode(request, "NoError") EXCEPT !.ra = TRUE, !.by = "proxy"]

\* ------------------------------------------------------------ filter verdicts
\* dnsfilter.Result.  The zero value (Reason 0 = NotFilteredNotFound) is what
\* handleDNSRequest starts with.
Verdict(filtered, reason, ipList, canon, reverse, ip, filterID) ==
    [IsFiltered |-> filtered, Reason |-> reason, IPList |-> ipList,
     CanonName |-> canon, ReverseHost |-> reverse, IP |-> ip, FilterID |-> filterID]

EmptyResult == Verdict(FALSE, "NotFilteredNotFound", <<>>, EmptyName, EmptyName, NoIP, 0)

\* A nil *dnsfilter.Result.
NoResult == [nil |-> TRUE]

\* What dnsFilter.CheckHost hands back for a request.
CheckHostResults ==
    { EmptyResult,
      Verdict(FALSE, "NotFilteredWhiteList", <<>>, EmptyName, EmptyName, NoIP, 0),
      Verdict(FALSE, "NotFilteredWhiteList", <<>>, EmptyName, EmptyName, NoIP, 10),
      Verdict(TRUE, "FilteredBlackList", <<>>, EmptyName, EmptyName, NoIP, 1),
      Verdict(TRUE, "FilteredBlackList", <<>>, EmptyName, EmptyName, IP4, 1),
      Verdict(TRUE, "FilteredSafeBrowsing", <<>>, EmptyName, EmptyName, NoIP, 0),
      Verdict(TRUE, "FilteredParental", <<>>, EmptyName, EmptyName, NoIP, 0),
      Verdict(TRUE, "FilteredSafeSearch", <<>>, EmptyName, EmptyName, IP4, 0),
      Verdict(TRUE, "FilteredSafeSearch", <<>>, EmptyName, EmptyName, NoIP, 0),
      Verdict(FALSE, "ReasonRewrite", <<>>, CanonHost, EmptyName, NoIP, 0),
      Verdict(FALSE, "ReasonRewrite", <<IP4, IP6>>, EmptyName, EmptyName, NoIP, 0),
      Verdict(FALSE, "ReasonRewrite", <<IP4, IP6>>, CanonHost, EmptyName, NoIP, 0),
      Verdict(FALSE, "RewriteEtcHosts", <<IP4, IP6>>, EmptyName, EmptyName, NoIP, 0),
      Verdict(FALSE, "RewriteEtcHosts", <<>>, EmptyName, ReverseHostName, NoIP, 0) }

\* What dnsFilter.CheckHostRules hands back for one answer of a response.
CheckHostRulesResults ==
    { Verdict(TRUE, "FilteredBlackList", <<>>, EmptyName, EmptyName, NoIP, 1),
      Verdict(TRUE, "FilteredSafeBrowsing", <<>>, EmptyName, EmptyName, NoIP, 0) }

\* CheckHostRules returning an error.
CheckHostRulesError == [error |-> TRUE]

\* ------------------------------------------------------------ configuration
\* A block host: the configured string and what net.ParseIP makes of it.
SafeBrowsingBlockHost == [host |-> "standard-block.dns.adguard.com", ip |-> NoIP]
ParentalBlockHost == [host |-> "family-block.dns.adguard.com", ip |-> NoIP]
BlockHostIP == [addr |-> "94.140.14.35", v4 |-> TRUE, len |-> 4]
CustomIPv4 == [addr |-> "10.0.0.1", v4 |-> TRUE, len |-> 16]
CustomIPv6 == [addr |-> "fd00::1", v4 |-> FALSE, len |-> 16]
BlockingModes == {"default", "null_ip", "custom_ip", "nxdomain"}

\* The ServerConfig fields the pipeline reads, as Prepare leaves them: in
\* custom_ip mode both blocking addresses have parsed.
Confs ==
    { [AAAADisabled |-> a, ProtectionEnabled |-> p, EnableDNSSEC |-> d,
       RefuseAny |-> r, BlockingMode |-> m,
       BlockingIPAddrv4 |-> IF m = "custom_ip" THEN CustomIPv4 ELSE NoIP,
       BlockingIPAddrv6 |-> IF m = "custom_ip" THEN CustomIPv6 ELSE NoIP,
       SafeBrowsingBlockHost |-> SafeBrowsingBlockHost,
       ParentalBlockHost |-> ParentalBlockHost] :
      a \in BOOLEAN, p \in BOOLEAN, d \in BOOLEAN, r \in BOOLEAN, m \in BlockingModes }

\* ------------------------------------------------- lifecycle configuration
\* net.ParseIP of the strings a configuration carries in BlockingIPv4 and
\* BlockingIPv6: the address, or nil for a string that is none.
ParseIP(text) ==
    CASE text = "10.0.0.1" -> CustomIPv4
      [] text = "fd00::1" -> CustomIPv6
      [] OTHER -> NoIP

\* A ServerConfig as a caller hands it to Prepare or Reconfigure: the fields
\* the pipeline reads, the two blocking addresses as strings, whether the
\* upstream settings are well formed, the three access lists and whether
\* HTTPRegister is set.
ServerConfig(mode, v4, v6, upstreamDNS, allowed, disallowed, blockedHosts, http) ==
    [AAAADisabled |-> FALSE, ProtectionEnabled |-> TRUE, EnableDNSSEC |-> FALSE,
     RefuseAny |-> FALSE, BlockingMode |-> mode,
     BlockingIPv4 |-> v4, BlockingIPv6 |-> v6,
     BlockingIPAddrv4 |-> NoIP, BlockingIPAddrv6 |-> NoIP,
     SafeBrowsingBlockHost |-> SafeBrowsingBlockHost,
     ParentalBlockHost |-> ParentalBlockHost,
     UpstreamDNS |-> upstreamDNS,
     AllowedClients |-> allowed, DisallowedClients |-> disallowed,
     BlockedHosts |-> blockedHosts, HTTPRegister |-> http]

\* The zero ServerConfig of a Server that was never prepared.
ZeroConfig == ServerConfig("", "", "", "ok", {}, {}, {}, FALSE)

\* A nil *proxy.Proxy where the model keeps the configuration a proxy was
\* built from.
NoProxy == [nil |-> TRUE]

\* ---------------------------------------------------------- access control
\* The clients a request comes from, and the client of every request where
\* the model leaves the gate of beforeRequestHandler out.
ClientAddrs == {"192.168.1.2", "10.9.9.9"}
DefaultAddr == "192.168.1.2"

\* An entry of AllowedClients or DisallowedClients is an address or a CIDR
\* block; the block 192.168.1.0/24 holds the first client only.
Covers(entry, ip) ==
    \/ entry = ip
    \/ entry = "192.168.1.0/24" /\ ip = "192.168.1.2"

\* An accessCtx: whether s.access is non-nil, whether Init has filled it, and
\* its three lists.
AccessCtx(isSet, inited, allowed, disallowed, blockedHosts) ==
    [set |-> isSet, init |-> inited, allowed |-> allowed,
     disallowed |-> disallowed, blockedHosts |-> blockedHosts]

\* A nil s.access, the fresh &accessCtx{} before Init, and the controller
\* Init makes of three lists.
NilAccess == AccessCtx(FALSE, FALSE, {}, {}, {})
EmptyAccess == AccessCtx(TRUE, FALSE, {}, {}, {})
InitAccess(allowed, disallowed, blockedHosts) ==
    AccessCtx(TRUE, TRUE, allowed, disallowed, blockedHosts)

\* accessCtx.IsBlockedIP: with a non-empty allow list every client outside it
\* is blocked, otherwise the clients of the disallow list are.
IsBlockedIP(a, ip) ==
    IF a.allowed # {}
      THEN ~(\E e \in a.allowed : Covers(e, ip))
      ELSE \E e \in a.disallowed : Covers(e, ip)

\* accessCtx.IsBlockedDomain: the host is one of the blocked hosts.
IsBlockedDomain(a, host) == host \in a.blockedHosts

\* ------------------------------------------------------------------- state
VARIABLES
    conf,                  \* Server.conf
    dnsFilter,             \* Server.dnsFilter is non-nil
    queryLog,              \* Server.queryLog is non-nil
    stats,                 \* Server.stats is non-nil
    dnsProxy,              \* Server.dnsProxy is non-nil
    pc,                    \* where the request is: "idle", "admitted", "dropped",
                           \* "s1".."s6", "s2io" (in the lookup of stage 2),
                           \* "done", "error", "panic"
    req,                   \* proxyCtx.Req
    res,                   \* proxyCtx.Res
    result,                \* dnsContext.result
    origResp,              \* dnsContext.origResp
    origQuestion,          \* dnsContext.origQuestion
    err,                   \* dnsContext.err
    protectionEnabled,     \* dnsContext.protectionEnabled
    responseFromUpstream,  \* dnsContext.responseFromUpstream
    origReqDNSSEC,         \* dnsContext.origReqDNSSEC
    clientReq,             \* history: the request as the client sent it
    upstreamRes,           \* history: the response as dnsProxy.Resolve returned it
    stage5In,              \* history: proxyCtx.Res on entry to processFilteringAfterResponse
    lastStage,             \* history: the last stage that ran (0: none)
    calls,                 \* history: calls made to each collaborator
    lookupOut,             \* history: what the last block-host lookup returned
    addr,                  \* proxyCtx.Addr: the client's IP address
    access,                \* Server.access
    internalProxy,         \* Server.internalProxy: the configuration it was built from
    proxyConfig,           \* Server.dnsProxy.Config: the configuration it was built from
    isRunning,             \* Server.isRunning
    webRegistered,         \* the package variable webRegistered
    registered,            \* history: calls of registerHandlers
    lock,                  \* Server.RWMutex: the task holding it for writing (0: none)
    task,                  \* the lifecycle call each task is in, and where
    seen,                  \* history: what a request task last read of the server
    cache,                 \* package worker: the IPs in `cache`
    hookLog,               \* history: the commands ProcessDNSResult issued
    manager,               \* package worker: the RuleManager `manager`
    managerLog             \* history: the calls made to the RuleManager

\* The variables of package worker.  The stages of the pipeline leave them
\* alone: stage 6 counts its call of the hook in `calls`, and the hook itself
\* is the action ProcessDNSResult.
workerVars == <<cache, hookLog, manager, managerLog>>

\* The server's fields and the state of the lifecycle calls, which no stage
\* of the pipeline writes.
lifeVars == <<access, internalProxy, proxyConfig, isRunning, webRegistered,
              registered, lock, task, seen, workerVars>>
srvVars == <<conf, dnsFilter, queryLog, stats, dnsProxy, lifeVars>>
ctxVars == <<req, res, result, origResp, origQuestion, err, protectionEnabled,
             responseFromUpstream, origReqDNSSEC>>
histVars == <<clientReq, upstreamRes, stage5In, lastStage, calls, lookupOut>>
vars == <<srvVars, pc, addr, ctxVars, histVars>>

NoCalls == [checkHost |-> 0, checkHostRules |-> 0, resolve |-> 0, lookup |-> 0,
            queryLog |-> 0, hook |-> 0, stats |-> 0, onDNSRequest |-> 0]

Called(what) == [calls EXCEPT ![what] = @ + 1]

\* --------------------------------------------------------- block responses
\* What s.dnsProxy.Resolve(newContext) does for the lookup of a block host:
\* it fails, or succeeds leaving newContext.Res nil, or succeeds with answers
\* that carry the block host's name.
LookupOutcomes ==
    { [err |-> TRUE, res |-> NoMsg],
      [err |-> FALSE, res |-> NoMsg],
      [err |-> FALSE, res |-> [answer |-> <<>>]],
      [err |-> FALSE, res |-> [answer |-> <<RR("A", Fqdn(MkName("standard-block.dns.adguard.com")), BlockHostIP)>>]] }

\* The loop of genBlockedHost leaving the header names as the lookup
\* returned them.
RewriteNames_Keep(answers, name) == answers

\* The loop of genBlockedHost: every answer of the lookup, its header name
\* set to the name of the question.
RewriteNames(answers, name) ==
    [i \in 1..Len(answers) |-> [answers[i] EXCEPT !.name = name]]

genBlockedHost(request, newAddr, lookup) ==
    IF newAddr.ip # NoIP THEN genResponseWithIP(request, newAddr.ip)
    ELSE IF lookup.err THEN genServerFailure(request)
    ELSE IF lookup.res = NoMsg THEN makeResponse(request)
    ELSE [makeResponse(request) EXCEPT
            !.answer = RewriteNames(lookup.res.answer, request.q.name)]

\* Whether genDNSFilterMessage reaches the lookup of genBlockedHost.
NeedsLookup(m, r) ==
    /\ m.q.qtype \in {"A", "AAAA"}
    /\ \/ r.Reason = "FilteredSafeBrowsing" /\ conf.SafeBrowsingBlockHost.ip = NoIP
       \/ r.Reason = "FilteredParental" /\ conf.ParentalBlockHost.ip = NoIP

\* The proxy genBlockedHost hands its lookup to: s.dnsProxy.
LookupProxy == "dnsProxy"

\* Calls of s.dnsProxy.Resolve made for the request: the one of stage 3 and
\* the lookups of genBlockedHost that go to s.dnsProxy.
PrimaryResolves ==
    calls.resolve + (IF LookupProxy = "dnsProxy" THEN calls.lookup ELSE 0)

\* Calls of s.internalProxy.Resolve made for the request.
InternalResolves ==
    IF LookupProxy = "internalProxy" THEN calls.lookup ELSE 0

\* genDNSFilterMessage without its first test, of the question type.
genDNSFilterMessage_NoTypeTest(m, r, lookup) ==
    IF r.Reason = "FilteredSafeBrowsing"
        THEN genBlockedHost(m, conf.SafeBrowsingBlockHost, lookup)
    ELSE IF r.Reason = "FilteredParental"
        THEN genBlockedHost(m, conf.ParentalBlockHost, lookup)
    ELSE IF r.Reason = "FilteredSafeSearch" /\ r.IP # NoIP
        THEN genResponseWithIP(m, r.IP)
    ELSE IF conf.BlockingMode = "null_ip"
        THEN IF m.q.qtype = "A" THEN genARecord(m, IPv4zero)
             ELSE genAAAARecord(m, IPv6zero)
    ELSE IF conf.BlockingMode = "custom_ip"
        THEN IF m.q.qtype = "A" THEN genARecord(m, conf.BlockingIPAddrv4)
             ELSE genAAAARecord(m, conf.BlockingIPAddrv6)
    ELSE IF conf.BlockingMode = "nxdomain" THEN genNXDomain(m)
    ELSE IF r.IP # NoIP THEN genResponseWithIP(m, r.IP)
    ELSE genNXDomain(m)

\* genDNSFilterMessage looking at the nxdomain blocking mode before the
\* reason of the verdict.
genDNSFilterMessage_ModeFirst(m, r, lookup) ==
    IF m.q.qtype \notin {"A", "AAAA"} THEN genNXDomain(m)
    ELSE IF conf.BlockingMode = "nxdomain" THEN genNXDomain(m)
    ELSE IF r.Reason = "FilteredSafeBrowsing"
        THEN genBlockedHost(m, conf.SafeBrowsingBlockHost, lookup)
    ELSE IF r.Reason = "FilteredParental"
        THEN genBlockedHost(m, conf.ParentalBlockHost, lookup)
    ELSE IF r.Reason = "FilteredSafeSearch" /\ r.IP # NoIP
        THEN genResponseWithIP(m, r.IP)
    ELSE IF conf.BlockingMode = "null_ip"
        THEN IF m.q.qtype = "A" THEN genARecord(m, IPv4zero)
             ELSE genAAAARecord(m, IPv6zero)
    ELSE IF conf.BlockingMode = "custom_ip"
        THEN IF m.q.qtype = "A" THEN genARecord(m, conf.BlockingIPAddrv4)
             ELSE genAAAARecord(m, conf.BlockingIPAddrv6)
    ELSE IF r.IP # NoIP THEN genResponseWithIP(m, r.IP)
    ELSE genNXDomain(m)

genDNSFilterMessage(m, r, lookup) ==
    IF m.q.qtype \notin {"A", "AAAA"} THEN genNXDomain(m)
    ELSE IF r.Reason = "FilteredSafeBrowsing"
        THEN genBlockedHost(m, conf.SafeBrowsingBlockHost, lookup)
    ELSE IF r.Reason = "FilteredParental"
        THEN genBlockedHost(m, conf.ParentalBlockHost, lookup)
    ELSE IF r.Reason = "FilteredSafeSearch" /\ r.IP # NoIP
        THEN genResponseWithIP(m, r.IP)
    ELSE IF conf.BlockingMode = "null_ip"
        THEN IF m.q.qtype = "A" THEN genARecord(m, IPv4zero)
             ELSE genAAAARecord(m, IPv6zero)
    ELSE IF conf.BlockingMode = "custom_ip"
        THEN IF m.q.qtype = "A" THEN genARecord(m, conf.BlockingIPAddrv4)
             ELSE genAAAARecord(m, conf.BlockingIPAddrv6)
    ELSE IF conf.BlockingMode = "nxdomain" THEN genNXDomain(m)
    ELSE IF r.IP # NoIP THEN genResponseWithIP(m, r.IP)
    ELSE genNXDomain(m)

\* What a call of Prepare finds of the configuration, the proxies and the
\* access controller.
NoPre == [conf |-> ZeroConfig, internalProxy |-> NoProxy, proxyConfig |-> NoProxy,
          dnsProxy |-> FALSE, access |-> NilAccess]

\* A task that is in no lifecycle call: the call it is in, where it is in
\* it, the configuration it was called with, Prepare's local proxyConfig,
\* what it read of webRegistered, what Prepare found on entry, the last
\* call it returned from, with its result and the step that failed, and the
\* number of calls it has made.
NoTask == [op |-> "none", at |-> "idle", config |-> ZeroConfig, pcfg |-> NoProxy,
           flag |-> FALSE, pre |-> NoPre,
           last |-> "none", ret |-> "none", failed |-> "none", n |-> 0]

\* The tasks that make lifecycle calls.
Tasks == {1, 2}

\* No request task has read the server yet.
NoSeen == [stage |-> "none", conf |-> ZeroConfig, proxyConfig |-> NoProxy,
           access |-> NilAccess]

\* ------------------------------------------------------------------- Init
\* The server after NewServer and a successful Prepare: every collaborator is
\* set, the configuration is any the pipeline can meet, no request is in flight.
\* No request has reached the server: the dnsContext fields hold their zero
\* values and nothing is recorded.
NoRequest ==
    /\ pc = "idle"
    /\ req = NoMsg /\ res = NoMsg
    /\ result = EmptyResult
    /\ origResp = NoMsg
    /\ origQuestion = ZeroQuestion
    /\ err = FALSE
    /\ protectionEnabled = FALSE
    /\ responseFromUpstream = FALSE
    /\ origReqDNSSEC = FALSE
    /\ clientReq = NoMsg /\ upstreamRes = NoMsg /\ stage5In = NoMsg
    /\ lastStage = 0
    /\ calls = NoCalls
    /\ lookupOut = [err |-> FALSE, res |-> NoMsg]
    /\ addr = DefaultAddr

\* ProcessDNSResult has not run: what `cache` held when it was called, whether
\* it ran, and the commands it issued, each with the index of the answer it
\* was issued for, the address it was given and whether it succeeded.
NoHookLog == [ran |-> FALSE, before |-> {}, cmds |-> <<>>]

\* The zero RuleManager: no items, size 0.
ZeroManager == [items |-> <<>>, size |-> 0]

\* No call was made to the RuleManager: the rules appended and not removed
\* since, now and before the last call, and the last call with its argument,
\* what it returned, the list it found, and whether it ended in a run-time
\* panic.
NoManagerLog == [present |-> {}, was |-> {}, op |-> "none", item |-> "",
                 ret |-> FALSE, before |-> <<>>, panic |-> FALSE]

\* Package worker as it is initialised.
NoWorker ==
    /\ cache = {}
    /\ hookLog = NoHookLog
    /\ manager = ZeroManager
    /\ managerLog = NoManagerLog

\* No task is in a lifecycle call and no request task has read the server.
NoLifecycleCall ==
    /\ lock = 0
    /\ task = [t \in Tasks |-> NoTask]
    /\ seen = NoSeen

\* The server running after a successful Prepare(c) and Start, with the
\* access controller a: the proxies are built from c, the collaborators
\* NewServer was given are set, HTTPRegister is not configured.
Running(c, a) ==
    /\ conf = c
    /\ dnsFilter = TRUE /\ queryLog = TRUE /\ stats = TRUE /\ dnsProxy = TRUE
    /\ access = a
    /\ internalProxy = c /\ proxyConfig = c
    /\ isRunning = TRUE
    /\ webRegistered = FALSE /\ registered = 0

Init ==
    /\ \E c \in Confs : Running(c, InitAccess({}, {}, {}))
    /\ NoRequest
    /\ NoLifecycleCall
    /\ NoWorker

\* ------------------------------------------------------------------- Close
\* Server.Close drops the four collaborators under the exclusive lock, which
\* no stage holds between two stages.
Close ==
    /\ dnsFilter \/ queryLog \/ stats \/ dnsProxy
    /\ dnsFilter' = FALSE /\ stats' = FALSE /\ queryLog' = FALSE /\ dnsProxy' = FALSE
    /\ UNCHANGED <<conf, lifeVars, pc, addr, ctxVars, histVars>>

\* -------------------------------------------------------- handleDNSRequest
ReqIds == {4660}

\* The requests a client sends: one question, with or without an OPT record.
Requests ==
    { [id |-> i, q |-> [name |-> n, qtype |-> t], opt |-> o] :
      i \in ReqIds, n \in QNames, t \in QTypes, o \in OptStates }

\* Entry of handleDNSRequest: a fresh dnsContext with an empty Result.  The
\* proxy calls it with the request it received ("idle") or, where the model
\* includes the gate of beforeRequestHandler, with the request the gate
\* admitted ("admitted").
handleDNSRequest ==
    /\ pc \in {"idle", "admitted"}
    /\ \E r \in Requests :
         /\ pc = "admitted" => r = req
         /\ req' = r /\ clientReq' = r
    /\ res' = NoMsg
    /\ result' = EmptyResult
    /\ pc' = "s1"
    /\ UNCHANGED <<srvVars, addr, origResp, origQuestion, err, protectionEnabled,
                   responseFromUpstream, origReqDNSSEC, upstreamRes, stage5In,
                   lastStage, calls, lookupOut>>

\* The loop of handleDNSRequest with an Error result treated like Done.
AfterStage_ErrorIgnored(r, next) ==
    IF r = "resultFinish" THEN "done" ELSE next

\* The loop of handleDNSRequest over the stages: where the request is after
\* a stage returned r, `next` being the stage after it ("done" after the last).
AfterStage(r, next) ==
    CASE r = "resultDone" -> next
      [] r = "resultFinish" -> "done"
      [] r = "resultError" -> "error"

\* The AAAA gate testing for the wrong question type.
IsDisabledAAAA_TypeA(q) == conf.AAAADisabled /\ q.qtype = "A"

\* The first test of processInitial: an AAAA question while AAAADisabled is set.
IsDisabledAAAA(q) == conf.AAAADisabled /\ q.qtype = "AAAA"

\* The canary test comparing against the name without its final dot.
IsMozillaCanary_NoDot(q) ==
    q.qtype \in {"A", "AAAA"} /\ q.name = TrimSuffixDot(CanaryName)

\* The second test of processInitial: the Mozilla DoH canary.
IsMozillaCanary(q) == q.qtype \in {"A", "AAAA"} /\ q.name = CanaryName

\* Stage 1.  conf.OnDNSRequest is not set.
processInitial ==
    /\ pc = "s1"
    /\ lastStage' = 1
    /\ IF IsDisabledAAAA(req.q)
         THEN res' = genEmptyNoError(req) /\ pc' = AfterStage("resultFinish", "s2")
         ELSE IF IsMozillaCanary(req.q)
         THEN res' = genNXDomain(req) /\ pc' = AfterStage("resultFinish", "s2")
         ELSE res' = res /\ pc' = AfterStage("resultDone", "s2")
    /\ UNCHANGED <<srvVars, req, result, origResp, origQuestion, err,
                   protectionEnabled, responseFromUpstream, origReqDNSSEC,
                   clientReq, upstreamRes, stage5In, calls, lookupOut, addr>>

\* The answers filterDNSRequest makes of a rewrite's IPList: an A record for
\* each address with a 4-byte form when the question asks A, an AAAA record
\* for each address without one when it asks AAAA, all under `name`.
RewriteAnswers(request, ipList, name) ==
    LET fits(ip) == \/ request.q.qtype = "A" /\ ip.v4
                    \/ request.q.qtype = "AAAA" /\ ~ip.v4
        kept == SelectSeq(ipList, fits)
    IN  [i \in 1..Len(kept) |->
            [(IF request.q.qtype = "A" THEN genAAnswer(request, kept[i])
              ELSE genAAAAAnswer(request, kept[i])) EXCEPT !.name = Fqdn(name)]]

\* The response filterDNSRequest builds for a rewrite with a non-empty IPList:
\* the CNAME to the canonical name when there is one, then the addresses.
RewriteResponse(request, v) ==
    [makeResponse(request) EXCEPT !.answer =
        IF v.CanonName # EmptyName
          THEN <<genCNAMEAnswer(request, v.CanonName)>>
               \o RewriteAnswers(request, v.IPList, v.CanonName)
          ELSE RewriteAnswers(request, v.IPList, TrimSuffixDot(request.q.name))]

\* filterDNSRequest after CheckHost returned verdict v without error: what it
\* leaves in d.Res, d.Req and ctx.origQuestion.
filterDNSRequest(v, lookup) ==
    LET same == [res |-> res, req |-> req, origQuestion |-> origQuestion]
    IN  IF v.IsFiltered
          THEN [same EXCEPT !.res = genDNSFilterMessage(req, v, lookup)]
        ELSE IF v.Reason \in {"ReasonRewrite", "RewriteEtcHosts"} /\ v.IPList # <<>>
          THEN [same EXCEPT !.res = RewriteResponse(req, v)]
        ELSE IF v.Reason = "ReasonRewrite" /\ v.CanonName # EmptyName
          THEN [same EXCEPT !.origQuestion = req.q,
                            !.req = [req EXCEPT !.q.name = Fqdn(v.CanonName)]]
        ELSE IF v.Reason = "RewriteEtcHosts" /\ v.ReverseHost # EmptyName
          THEN [same EXCEPT !.res =
                  [makeResponse(req) EXCEPT !.answer =
                      <<RR("PTR", req.q.name, v.ReverseHost)>>]]
        ELSE same

\* Stage 2.
processFilteringBeforeRequest ==
    /\ pc = "s2"
    /\ lastStage' = 2
    /\ protectionEnabled' = (conf.ProtectionEnabled /\ dnsFilter)
    /\ IF protectionEnabled'
         THEN \/ \* CheckHost fails
                 /\ result' = NoResult
                 /\ err' = TRUE
                 /\ pc' = AfterStage("resultError", "s3")
                 /\ calls' = Called("checkHost")
                 /\ UNCHANGED <<req, res, origQuestion, lookupOut>>
              \/ \E v \in CheckHostResults, lookup \in LookupOutcomes :
                   LET out == filterDNSRequest(v, lookup)
                   IN  /\ result' = v
                       /\ res' = out.res
                       /\ req' = out.req
                       /\ origQuestion' = out.origQuestion
                       /\ calls' = [calls EXCEPT
                              !.checkHost = @ + 1,
                              !.lookup = @ + (IF v.IsFiltered /\ NeedsLookup(req, v)
                                              THEN 1 ELSE 0)]
                       /\ lookupOut' = (IF v.IsFiltered /\ NeedsLookup(req, v)
                                        THEN lookup ELSE lookupOut)
                       /\ pc' = AfterStage("resultDone", "s3")
                       /\ err' = err
         ELSE /\ pc' = AfterStage("resultDone", "s3")
              /\ UNCHANGED <<req, res, result, origQuestion, err, calls, lookupOut>>
    /\ UNCHANGED <<srvVars, origResp, responseFromUpstream, origReqDNSSEC,
                   clientReq, upstreamRes, stage5In, addr>>

\* All sequences over S of length at most n.
SeqsUpTo(S, n) == UNION { [1..k -> S] : k \in 0..n }

\* The records an upstream answers a question for `name` with.
UpstreamRRs(name) ==
    { RR("A", name, UpstreamIP),
      RR("RRSIG", name, "sig") }

UpstreamNs(name) ==
    { <<>>, <<RR("RRSIG", name, "sig"), RR("NS", name, "ns.example.")>> }

\* What dnsProxy.Resolve leaves in d.Res when it returns no error: a reply to
\* the request as it was sent upstream.
UpstreamResponses(r) ==
    { [id |-> r.id, rcode |-> "NoError", ra |-> TRUE, compress |-> FALSE,
       q |-> r.q, answer |-> a, ns |-> n, opt |-> o, by |-> "upstream"] :
      a \in SeqsUpTo(UpstreamRRs(r.q.name), MaxAnswers),
      n \in UpstreamNs(r.q.name), o \in OptStates }

\* The EnableDNSSEC block of processUpstream: the request leaves with an OPT
\* record whose DO bit is set.
SetDNSSEC(r) == [r EXCEPT !.opt = "do1"]

\* Stage 3.
processUpstream ==
    /\ pc = "s3"
    /\ lastStage' = 3
    /\ IF res # NoMsg
         THEN /\ pc' = AfterStage("resultDone", "s4")
              /\ UNCHANGED <<req, res, err, responseFromUpstream, origReqDNSSEC,
                             upstreamRes, calls>>
         ELSE /\ req' = (IF conf.EnableDNSSEC THEN SetDNSSEC(req) ELSE req)
              /\ origReqDNSSEC' = (IF conf.EnableDNSSEC /\ req.opt = "do1"
                                   THEN TRUE ELSE origReqDNSSEC)
              /\ IF ~dnsProxy
                   THEN \* s.dnsProxy is nil: Resolve dereferences it
                        /\ pc' = "panic"
                        /\ UNCHANGED <<res, err, responseFromUpstream, upstreamRes, calls>>
                   ELSE /\ calls' = Called("resolve")
                        /\ \/ /\ err' = TRUE
                              /\ pc' = AfterStage("resultError", "s4")
                              /\ UNCHANGED <<res, responseFromUpstream, upstreamRes>>
                           \/ \E up \in UpstreamResponses(req') :
                                /\ res' = up
                                /\ upstreamRes' = up
                                /\ responseFromUpstream' = TRUE
                                /\ pc' = AfterStage("resultDone", "s4")
                                /\ err' = err
    /\ UNCHANGED <<srvVars, result, origResp, origQuestion, protectionEnabled,
                   clientReq, stage5In, lookupOut, addr>>

\* A loop that stops removing after the first RRSIG record it met.
RemoveRRSIG_First(rrs) ==
    LET sigs == {i \in 1..Len(rrs) : rrs[i].type = "RRSIG"}
    IN  IF sigs = {} THEN rrs
        ELSE LET f == CHOOSE i \in sigs : \A k \in sigs : i <= k
             IN  SubSeq(rrs, 1, f - 1) \o SubSeq(rrs, f + 1, Len(rrs))

\* The two loops of processDNSSECAfterResponse: the records that are not
\* RRSIG, in their order.
RemoveRRSIG(rrs) == SelectSeq(rrs, LAMBDA a : a.type # "RRSIG")

\* Whether processDNSSECAfterResponse returns before its loops.
SkipDNSSECStrip ==
    \/ ~responseFromUpstream
    \/ ~conf.EnableDNSSEC
    \/ ~origReqDNSSEC /\ res.opt = "do1"

\* Stage 4.
processDNSSECAfterResponse ==
    /\ pc = "s4"
    /\ lastStage' = 4
    /\ res' = IF SkipDNSSECStrip THEN res
              ELSE [res EXCEPT !.answer = RemoveRRSIG(@), !.ns = RemoveRRSIG(@)]
    /\ pc' = AfterStage("resultDone", "s5")
    /\ UNCHANGED <<srvVars, req, result, origResp, origQuestion, err,
                   protectionEnabled, responseFromUpstream, origReqDNSSEC,
                   clientReq, upstreamRes, stage5In, calls, lookupOut, addr>>

\* The rule list CheckHostRules works with: any, or one that blocks the
\* hosts of `blocked`.
AnyRules == [any |-> TRUE, blocked |-> {}]

\* The host a record names: the address of an A or AAAA record as a string,
\* otherwise the target without its final dot.
RRHost(a) ==
    IF a.type \in {"A", "AAAA"} THEN a.data.addr ELSE TrimSuffixDot(a.data).base

\* The sets of answers of d.Res a rule list may match.
HitSets(rules) ==
    IF rules.any THEN SUBSET (1..Len(res.answer))
    ELSE {{i \in 1..Len(res.answer) : RRHost(res.answer[i]) \in rules.blocked}}

\* filterDNSResponse: the answers of d.Res in order, from index i.  CNAME, A
\* and AAAA answers are checked while protection is on and the filter is set;
\* the filter matches the answers `hits` with `outcome` (CheckHostRulesError:
\* it fails) and passes every other.  n counts the CheckHostRules calls.
RECURSIVE filterDNSResponse(_, _, _, _)
filterDNSResponse(i, n, hits, outcome) ==
    IF i > Len(res.answer) THEN [kind |-> "none", n |-> n]
    ELSE IF res.answer[i].type \notin {"CNAME", "A", "AAAA"}
      THEN filterDNSResponse(i + 1, n, hits, outcome)
    ELSE IF ~conf.ProtectionEnabled \/ ~dnsFilter
      THEN filterDNSResponse(i + 1, n, hits, outcome)
    ELSE IF i \notin hits THEN filterDNSResponse(i + 1, n + 1, hits, outcome)
    ELSE IF outcome = CheckHostRulesError THEN [kind |-> "error", n |-> n + 1]
    ELSE [kind |-> "match", n |-> n + 1, result |-> outcome]

\* The ReasonRewrite case of processFilteringAfterResponse: whether it goes
\* on to restore the question.
RestoresQuestion(r) == r.CanonName # EmptyName

\* The CNAME appended after the answers instead of ahead of them.
PrependCNAME_Append(cname, answers) == answers \o <<cname>>

\* The answer list the ReasonRewrite case builds: the CNAME, then the answers
\* of the response.
PrependCNAME(cname, answers) == <<cname>> \o answers

\* Stage 5, with the rule list of the filter.
processFilteringAfterResponseWith(rules) ==
    /\ pc = "s5"
    /\ lastStage' = 5
    /\ stage5In' = res
    /\ IF result.Reason = "ReasonRewrite"
         THEN /\ IF RestoresQuestion(result)
                   THEN LET req2 == [req EXCEPT !.q = origQuestion]
                            res2 == [res EXCEPT !.q = origQuestion]
                        IN  /\ req' = req2
                            /\ res' = IF res2.answer # <<>>
                                        THEN [res2 EXCEPT !.answer =
                                                PrependCNAME(genCNAMEAnswer(req2, result.CanonName), @)]
                                        ELSE res2
                   ELSE UNCHANGED <<req, res>>
              /\ pc' = AfterStage("resultDone", "s6")
              /\ UNCHANGED <<result, origResp, err, calls, lookupOut>>
         ELSE IF result.Reason = "NotFilteredWhiteList"
         THEN /\ pc' = AfterStage("resultDone", "s6")
              /\ UNCHANGED <<req, res, result, origResp, err, calls, lookupOut>>
         ELSE IF ~protectionEnabled \/ ~responseFromUpstream
         THEN /\ pc' = AfterStage("resultDone", "s6")
              /\ UNCHANGED <<req, res, result, origResp, err, calls, lookupOut>>
         ELSE \E hits \in HitSets(rules),
                 outcome \in CheckHostRulesResults \cup {CheckHostRulesError},
                 lookup \in LookupOutcomes :
                LET scan == filterDNSResponse(1, 0, hits, outcome)
                IN  /\ calls' = [calls EXCEPT
                           !.checkHostRules = @ + scan.n,
                           !.lookup = @ + (IF scan.kind = "match"
                                              /\ NeedsLookup(req, scan.result)
                                           THEN 1 ELSE 0)]
                    /\ lookupOut' = (IF scan.kind = "match"
                                        /\ NeedsLookup(req, scan.result)
                                     THEN lookup ELSE lookupOut)
                    /\ req' = req
                    /\ CASE scan.kind = "error" ->
                              /\ result' = NoResult
                              /\ err' = TRUE
                              /\ pc' = AfterStage("resultError", "s6")
                              /\ UNCHANGED <<res, origResp>>
                         [] scan.kind = "match" ->
                              /\ res' = genDNSFilterMessage(req, scan.result, lookup)
                              /\ result' = scan.result
                              /\ origResp' = res
                              /\ pc' = AfterStage("resultDone", "s6")
                              /\ err' = err
                         [] OTHER ->
                              /\ result' = EmptyResult
                              /\ pc' = AfterStage("resultDone", "s6")
                              /\ UNCHANGED <<res, origResp, err>>
    /\ UNCHANGED <<srvVars, origQuestion, protectionEnabled, responseFromUpstream,
                   origReqDNSSEC, clientReq, upstreamRes, addr>>

\* Stage 5.
processFilteringAfterResponse == processFilteringAfterResponseWith(AnyRules)

\* Stage 6 without its RefuseAny test.
shouldLog_Always == TRUE

\* processQueryLogsAndStats: no log entry for an ANY request under RefuseAny.
shouldLog == ~(req.q.qtype = "ANY" /\ conf.RefuseAny)

\* updateStats slices the last byte off the lower-cased question name, which
\* fails on the empty string.
StatsDomainFails == req.q.name = EmptyName

\* Stage 6, and the end of handleDNSRequest after the loop over the stages.
processQueryLogsAndStats ==
    /\ pc = "s6"
    /\ lastStage' = 6
    /\ LET logged == shouldLog /\ queryLog
           afterLog == IF logged
                         THEN [calls EXCEPT !.queryLog = @ + 1, !.hook = @ + 1]
                         ELSE calls
       IN  IF stats /\ StatsDomainFails
             THEN /\ pc' = "panic"
                  /\ calls' = afterLog
                  /\ res' = res
             ELSE /\ pc' = AfterStage("resultDone", "done")
                  /\ calls' = IF stats THEN [afterLog EXCEPT !.stats = @ + 1]
                              ELSE afterLog
                  /\ res' = IF res # NoMsg THEN [res EXCEPT !.compress = TRUE] ELSE res
    /\ UNCHANGED <<srvVars, req, result, origResp, origQuestion, err,
                   protectionEnabled, responseFromUpstream, origReqDNSSEC,
                   clientReq, upstreamRes, stage5In, lookupOut, addr>>

\* ------------------------------------------------------------ specification
Next ==
    \/ handleDNSRequest
    \/ processInitial
    \/ processFilteringBeforeRequest
    \/ processUpstream
    \/ processDNSSECAfterResponse
    \/ processFilteringAfterResponse
    \/ processQueryLogsAndStats
    \/ Close

Spec == Init /\ [][Next]_vars

\* ----------------------------------------------------- the access-control gate
\* The host name beforeRequestHandler asks about, taken as the question
\* carries it.
GateHost_NoTrim(q) == q.name

\* The host name beforeRequestHandler asks about: the question's name
\* without its final dot.
GateHost(q) == TrimSuffixDot(q.name)

\* beforeRequestHandler, which the proxy calls with every request it
\* received before it hands the request to handleDNSRequest; the proxy drops
\* a request the handler returns false for.  Every request of the model has
\* one question.
beforeRequestHandler ==
    /\ pc = "idle"
    /\ \E r \in Requests, ip \in ClientAddrs :
         /\ req' = r /\ addr' = ip
         /\ pc' = IF ~access.set THEN "panic"
                  ELSE IF IsBlockedIP(access, ip) THEN "dropped"
                  ELSE IF IsBlockedDomain(access, GateHost(r.q)) THEN "dropped"
                  ELSE "admitted"
    /\ UNCHANGED <<srvVars, res, result, origResp, origQuestion, err,
                   protectionEnabled, responseFromUpstream, origReqDNSSEC, histVars>>

\* The access controllers of the gate's specification: open, an allow list
\* with a CIDR block, a disallow list, a blocked host, and all three lists.
GateAccessCtxs ==
    { InitAccess({}, {}, {}),
      InitAccess({"192.168.1.0/24"}, {}, {}),
      InitAccess({}, {"10.9.9.9"}, {}),
      InitAccess({}, {}, {TrimSuffixDot(HostName)}),
      InitAccess({"10.9.9.9"}, {"10.9.9.9"}, {TrimSuffixDot(CanaryName)}) }

\* The configurations of the gate's specification.
GateConfs ==
    { c \in Confs : /\ c.ProtectionEnabled /\ ~c.AAAADisabled /\ ~c.RefuseAny
                    /\ c.BlockingMode = "default" }

InitGate ==
    /\ \E c \in GateConfs, a \in GateAccessCtxs : Running(c, a)
    /\ NoRequest
    /\ NoLifecycleCall
    /\ NoWorker

\* The proxy hands handleDNSRequest the requests the gate admitted, no other.
NextGate ==
    \/ beforeRequestHandler
    \/ pc = "admitted" /\ handleDNSRequest
    \/ processInitial
    \/ processFilteringBeforeRequest
    \/ processUpstream
    \/ processDNSSECAfterResponse
    \/ processFilteringAfterResponse
    \/ processQueryLogsAndStats
    \/ Close

\* The pipeline behind the gate of beforeRequestHandler.
SpecGate == InitGate /\ [][NextGate]_vars

\* ------------------------------------------------------------ the lifecycle
\* What no lifecycle call writes: the collaborators NewServer was given and
\* the request in the pipeline.
reqVars == <<dnsFilter, queryLog, stats, pc, addr, ctxVars, histVars, workerVars>>

\* Task t returns from its call with result r ("nil" or "error"), f naming
\* the step that failed.
Return(t, r, f) ==
    [task EXCEPT ![t] = [@ EXCEPT !.op = "none", !.at = "idle",
                                  !.last = task[t].op, !.ret = r, !.failed = f]]

\* Task t moves on to step `at` of its call.
Goto(t, at) == [task EXCEPT ![t].at = at]

\* The deferred s.Unlock() of a call that took the lock.
Unlock(t) == IF lock = t THEN 0 ELSE lock

\* The test Prepare makes of the parsed custom addresses, looking at the
\* IPv4 address only.
ValidCustomIP_OnlyV4(c) == c.BlockingIPAddrv4 # NoIP

\* The test Prepare makes of the parsed custom addresses.
ValidCustomIP(c) == c.BlockingIPAddrv4 # NoIP /\ c.BlockingIPAddrv6 # NoIP

\* The configuration Prepare stores: the caller's, with the two blocking
\* addresses parsed in custom_ip mode.
StoredConfig(c) ==
    IF c.BlockingMode = "custom_ip"
      THEN [c EXCEPT !.BlockingIPAddrv4 = ParseIP(c.BlockingIPv4),
                     !.BlockingIPAddrv6 = ParseIP(c.BlockingIPv6)]
      ELSE c

\* Start: under the lock, startInternal sets isRunning when the proxy started.
\* On a server that was never prepared s.dnsProxy is nil and the call panics.
Start(t, max) ==
    /\ task[t].op = "none" /\ task[t].at = "idle" /\ lock = 0
    /\ task[t].n < max
    /\ IF ~dnsProxy
         THEN /\ task' = [task EXCEPT ![t] = [@ EXCEPT !.op = "Start", !.at = "panic",
                                                      !.n = @ + 1]]
              /\ UNCHANGED <<lock, isRunning>>
         ELSE \E started \in BOOLEAN :
                /\ isRunning' = (IF started THEN TRUE ELSE isRunning)
                /\ task' = [task EXCEPT ![t] =
                       [@ EXCEPT !.last = "Start", !.n = @ + 1,
                                 !.ret = IF started THEN "nil" ELSE "error",
                                 !.failed = IF started THEN "none" ELSE "Start"]]
                /\ lock' = lock
    /\ UNCHANGED <<conf, dnsProxy, access, internalProxy, proxyConfig,
                   webRegistered, registered, seen, reqVars>>

\* Stop: under the lock, stopInternal: where there is a proxy its Stop may
\* fail, and isRunning is cleared only when it did not.
Stop(t, max) ==
    /\ task[t].op = "none" /\ task[t].at = "idle" /\ lock = 0
    /\ task[t].n < max
    /\ \E stopped \in BOOLEAN :
         /\ ~dnsProxy => stopped
         /\ isRunning' = (IF stopped THEN FALSE ELSE isRunning)
         /\ task' = [task EXCEPT ![t] =
                [@ EXCEPT !.last = "Stop", !.n = @ + 1,
                          !.ret = IF stopped THEN "nil" ELSE "error",
                          !.failed = IF stopped THEN "none" ELSE "Stop"]]
    /\ UNCHANGED <<conf, dnsProxy, access, internalProxy, proxyConfig,
                   webRegistered, registered, lock, seen, reqVars>>

\* Reconfigure up to its call of Prepare: it takes the lock and calls
\* stopInternal, and returns the error if that failed.
ReconfigureStop(t, configs, max) ==
    /\ task[t].op = "none" /\ task[t].at = "idle" /\ lock = 0
    /\ task[t].n < max
    /\ \E c \in configs, stopped \in BOOLEAN :
         /\ ~dnsProxy => stopped
         /\ LET called == [task EXCEPT ![t] = [@ EXCEPT !.op = "Reconfigure", !.config = c,
                                                           !.n = @ + 1]]
            IN  IF stopped
                  THEN /\ isRunning' = FALSE
                       /\ task' = [called EXCEPT ![t].at = "p1"]
                       /\ lock' = t
                  ELSE /\ isRunning' = isRunning
                       /\ task' = [called EXCEPT ![t] =
                              [@ EXCEPT !.op = "none", !.last = "Reconfigure",
                                        !.ret = "error", !.failed = "Stop"]]
                       /\ lock' = lock
    /\ UNCHANGED <<conf, dnsProxy, access, internalProxy, proxyConfig,
                   webRegistered, registered, seen, reqVars>>

\* A call of Prepare itself, which takes no lock.
PrepareCall(t, configs, max) ==
    /\ task[t].op = "none" /\ task[t].at = "idle"
    /\ task[t].n < max
    /\ \E c \in configs :
         task' = [task EXCEPT ![t] = [@ EXCEPT !.op = "Prepare", !.config = c, !.at = "p1",
                                              !.n = @ + 1]]
    /\ UNCHANGED <<conf, dnsProxy, lock, access, internalProxy, proxyConfig,
                   isRunning, webRegistered, registered, seen, reqVars>>

\* Prepare, step 1: the configuration is stored, and in custom_ip mode the
\* two addresses are parsed and tested.
PrepareConfig(t) ==
    /\ task[t].at = "p1"
    /\ conf' = StoredConfig(task[t].config)
    /\ LET found == [conf |-> conf, internalProxy |-> internalProxy,
                     proxyConfig |-> proxyConfig, dnsProxy |-> dnsProxy,
                     access |-> access]
           entered == [task EXCEPT ![t].pre = found]
       IN  IF conf'.BlockingMode = "custom_ip" /\ ~ValidCustomIP(conf')
             THEN /\ task' = [entered EXCEPT ![t] =
                         [@ EXCEPT !.op = "none", !.at = "idle", !.last = task[t].op,
                                   !.ret = "error", !.failed = "custom_ip"]]
                  /\ lock' = Unlock(t)
             ELSE /\ task' = [entered EXCEPT ![t].at = "p2"]
                  /\ lock' = lock
    /\ UNCHANGED <<dnsProxy, access, internalProxy, proxyConfig, isRunning,
                   webRegistered, registered, seen, reqVars>>

\* Prepare, steps 2 to 4: default settings, the upstream settings, which
\* fail when malformed, the proxy configuration, whose construction may
\* fail, and the new internal proxy.
PrepareProxyConfig(t) ==
    /\ task[t].at = "p2"
    /\ IF conf.UpstreamDNS = "malformed"
         THEN /\ task' = Return(t, "error", "prepareUpstreamSettings")
              /\ lock' = Unlock(t)
              /\ UNCHANGED internalProxy
         ELSE \E built \in BOOLEAN :
                IF built
                  THEN /\ task' = [task EXCEPT ![t] = [@ EXCEPT !.pcfg = conf, !.at = "p5"]]
                       /\ internalProxy' = conf
                       /\ lock' = lock
                  ELSE /\ task' = Return(t, "error", "createProxyConfig")
                       /\ lock' = Unlock(t)
                       /\ UNCHANGED internalProxy
    /\ UNCHANGED <<conf, dnsProxy, access, proxyConfig, isRunning,
                   webRegistered, registered, seen, reqVars>>

\* Prepare, step 5, first statement: s.access is a fresh accessCtx.
PrepareNewAccess(t) ==
    /\ task[t].at = "p5"
    /\ access' = EmptyAccess
    /\ task' = Goto(t, "p5i")
    /\ UNCHANGED <<conf, dnsProxy, lock, internalProxy, proxyConfig, isRunning,
                   webRegistered, registered, seen, reqVars>>

\* An entry of an access list that is no address and no CIDR block.
MalformedEntry == "300.1.1.1/40"

\* Prepare, step 5, second statement: Init fills the accessCtx from the
\* three lists, and fails on a malformed entry.
PrepareInitAccess(t) ==
    /\ task[t].at = "p5i"
    /\ IF MalformedEntry \in conf.AllowedClients \cup conf.DisallowedClients
         THEN /\ task' = Return(t, "error", "access.Init")
              /\ lock' = Unlock(t)
              /\ UNCHANGED access
         ELSE /\ access' = InitAccess(conf.AllowedClients, conf.DisallowedClients,
                                      conf.BlockedHosts)
              /\ task' = Goto(t, "p6")
              /\ lock' = lock
    /\ UNCHANGED <<conf, dnsProxy, internalProxy, proxyConfig, isRunning,
                   webRegistered, registered, seen, reqVars>>

\* Prepare, step 6, the test: webRegistered is read, with no lock of its own.
PrepareTestRegistered(t) ==
    /\ task[t].at = "p6"
    /\ task' = [task EXCEPT ![t] = [@ EXCEPT !.flag = ~webRegistered /\ conf.HTTPRegister,
                                             !.at = "p7"]]
    /\ UNCHANGED <<conf, dnsProxy, lock, access, internalProxy, proxyConfig,
                   isRunning, webRegistered, registered, seen, reqVars>>

\* Prepare, the rest of step 6 and step 7: where the test passed the flag is
\* set and registerHandlers called; the main proxy is created from the
\* proxy configuration, and Prepare returns nil.
PrepareProxy(t) ==
    /\ task[t].at = "p7"
    /\ webRegistered' = (webRegistered \/ task[t].flag)
    /\ registered' = registered + (IF task[t].flag THEN 1 ELSE 0)
    /\ dnsProxy' = TRUE
    /\ proxyConfig' = task[t].pcfg
    /\ IF task[t].op = "Prepare"
         THEN task' = Return(t, "nil", "none")
         ELSE task' = Goto(t, "start")
    /\ UNCHANGED <<conf, lock, access, internalProxy, isRunning, seen, reqVars>>

\* Reconfigure after Prepare returned nil: startInternal, and the return.
ReconfigureStart(t) ==
    /\ task[t].at = "start"
    /\ \E started \in BOOLEAN :
         /\ isRunning' = (IF started THEN TRUE ELSE isRunning)
         /\ task' = IF started THEN Return(t, "nil", "none")
                    ELSE Return(t, "error", "Start")
    /\ lock' = Unlock(t)
    /\ UNCHANGED <<conf, dnsProxy, access, internalProxy, proxyConfig,
                   webRegistered, registered, seen, reqVars>>

\* The configurations callers hand to Prepare and Reconfigure: the default
\* mode with and without HTTPRegister, custom_ip with both addresses, with an
\* IPv4 or an IPv6 string that is no address, with malformed upstream
\* settings, and with a malformed access list.
LifeConfigs ==
    { ServerConfig("default", "", "", "ok", {}, {}, {}, TRUE),
      ServerConfig("default", "", "", "ok", {}, {"10.9.9.9"}, {}, FALSE),
      ServerConfig("custom_ip", "10.0.0.1", "fd00::1", "ok", {}, {}, {}, TRUE),
      ServerConfig("custom_ip", "10.0.0.256", "fd00::1", "ok", {}, {}, {}, TRUE),
      ServerConfig("custom_ip", "10.0.0.1", "", "ok", {}, {}, {}, TRUE),
      ServerConfig("custom_ip", "10.0.0.1", "fd00::1", "malformed", {}, {}, {}, TRUE),
      ServerConfig("custom_ip", "10.0.0.1", "fd00::1", "ok", {MalformedEntry}, {}, {}, TRUE) }

\* The one task that makes the lifecycle calls of SpecLife.
LifeTasks == {1}

\* The server as NewServer returns it: the three collaborators set, nothing
\* prepared.
InitLife ==
    /\ conf = ZeroConfig
    /\ dnsFilter = TRUE /\ queryLog = TRUE /\ stats = TRUE /\ dnsProxy = FALSE
    /\ access = NilAccess
    /\ internalProxy = NoProxy /\ proxyConfig = NoProxy
    /\ isRunning = FALSE
    /\ webRegistered = FALSE /\ registered = 0
    /\ NoRequest
    /\ NoLifecycleCall
    /\ NoWorker

NextLife ==
    \E t \in LifeTasks :
        \/ Start(t, MaxLifeCalls)
        \/ Stop(t, MaxLifeCalls)
        \/ ReconfigureStop(t, LifeConfigs, MaxLifeCalls)
        \/ PrepareCall(t, LifeConfigs, MaxLifeCalls)
        \/ PrepareConfig(t)
        \/ PrepareProxyConfig(t)
        \/ PrepareNewAccess(t)
        \/ PrepareInitAccess(t)
        \/ PrepareTestRegistered(t)
        \/ PrepareProxy(t)
        \/ ReconfigureStart(t)

\* The lifecycle calls of one caller, one after the other.
SpecLife == InitLife /\ [][NextLife]_vars

\* A request task reads s.access in beforeRequestHandler, holding no lock.
readAccess ==
    /\ seen' = [NoSeen EXCEPT !.stage = "beforeRequestHandler", !.access = access]
    /\ UNCHANGED <<conf, dnsProxy, lock, task, access, internalProxy, proxyConfig,
                   isRunning, webRegistered, registered, reqVars>>

\* A request task reads s.conf and s.dnsProxy in processUpstream, holding no
\* lock.
readConfAndProxy ==
    /\ dnsProxy
    /\ seen' = [NoSeen EXCEPT !.stage = "processUpstream", !.conf = conf,
                              !.proxyConfig = proxyConfig]
    /\ UNCHANGED <<conf, dnsProxy, lock, task, access, internalProxy, proxyConfig,
                   isRunning, webRegistered, registered, reqVars>>

\* The configurations of SpecRace, both well formed and with HTTPRegister.
RaceConfigs ==
    { ServerConfig("default", "", "", "ok", {}, {"10.9.9.9"}, {}, TRUE),
      ServerConfig("custom_ip", "10.0.0.1", "fd00::1", "ok", {"192.168.1.0/24"}, {}, {}, TRUE) }

\* The server running with a configuration that sets no HTTPRegister; its
\* request tasks stay in flight when the proxy is stopped.
InitRace ==
    /\ LET c == ServerConfig("default", "", "", "ok", {}, {"10.9.9.9"}, {}, FALSE)
       IN  Running(c, InitAccess(c.AllowedClients, c.DisallowedClients, c.BlockedHosts))
    /\ NoRequest
    /\ NoLifecycleCall
    /\ NoWorker

NextRace ==
    \/ \E t \in Tasks :
          \/ ReconfigureStop(t, RaceConfigs, MaxRaceCalls)
          \/ PrepareCall(t, RaceConfigs, MaxRaceCalls)
          \/ PrepareConfig(t)
          \/ PrepareProxyConfig(t)
          \/ PrepareNewAccess(t)
          \/ PrepareInitAccess(t)
          \/ PrepareTestRegistered(t)
          \/ PrepareProxy(t)
          \/ ReconfigureStart(t)
    \/ readAccess
    \/ readConfAndProxy

\* Lifecycle calls of two callers next to the request tasks of the server.
SpecRace == InitRace /\ [][NextRace]_vars

\* ------------------------------------------------- the DNSSEC stage, twice
\* The records of the responses stage 4 is applied to: two A records, a
\* CNAME and a signature in Answer, a name server and a signature in Ns.
StripRRs(name) ==
    { RR("A", name, UpstreamIP),
      RR("A", name, IP4),
      RR("CNAME", name, Fqdn(CanonHost)),
      RR("RRSIG", name, "sig") }

StripNs(name) ==
    SeqsUpTo({RR("NS", name, "ns.example."), RR("RRSIG", name, "sig")}, 2)

\* What Resolve left in d.Res for the request r.
StripResponses(r) ==
    { [id |-> r.id, rcode |-> "NoError", ra |-> TRUE, compress |-> FALSE,
       q |-> r.q, answer |-> a, ns |-> n, opt |-> o, by |-> "upstream"] :
      a \in SeqsUpTo(StripRRs(r.q.name), MaxStripLen),
      n \in StripNs(r.q.name), o \in OptStates }

\* The configurations of SpecStrip: DNSSEC enabled or not.
StripConfs ==
    { c \in Confs : /\ ~c.AAAADisabled /\ c.ProtectionEnabled /\ ~c.RefuseAny
                    /\ c.BlockingMode = "default" }

\* The request the client of SpecStrip sent, with each state of its OPT record.
StripRequests ==
    { r \in Requests : r.q.name = HostName /\ r.q.qtype = "A" }

\* The dnsContext as stage 3 leaves it for a request that no filter matched
\* and the upstream answered.
InitStrip ==
    /\ \E c \in StripConfs, r \in StripRequests :
          /\ Running(c, InitAccess({}, {}, {}))
          /\ clientReq = r
          /\ req = (IF c.EnableDNSSEC THEN SetDNSSEC(r) ELSE r)
          /\ origReqDNSSEC = (c.EnableDNSSEC /\ r.opt = "do1")
          /\ \E up \in StripResponses(req) : res = up /\ upstreamRes = up
    /\ NoLifecycleCall
    /\ NoWorker
    /\ pc = "s4"
    /\ result = EmptyResult
    /\ origResp = NoMsg
    /\ origQuestion = ZeroQuestion
    /\ err = FALSE
    /\ protectionEnabled = TRUE
    /\ responseFromUpstream = TRUE
    /\ stage5In = NoMsg
    /\ lastStage = 3
    /\ calls = [NoCalls EXCEPT !.checkHost = 1, !.resolve = 1]
    /\ lookupOut = [err |-> FALSE, res |-> NoMsg]
    /\ addr = DefaultAddr

\* processDNSSECAfterResponse is called on the same dnsContext once more; what
\* its first call left in d.Res is kept.
ApplyAgain ==
    /\ pc = "s5" /\ lastStage = 4 /\ stage5In = NoMsg
    /\ stage5In' = res
    /\ pc' = "s4"
    /\ UNCHANGED <<srvVars, addr, ctxVars, clientReq, upstreamRes, lastStage,
                   calls, lookupOut>>

NextStrip ==
    \/ processDNSSECAfterResponse
    \/ ApplyAgain

\* Stage 4 applied once and twice to the response of an upstream.
SpecStrip == InitStrip /\ [][NextStrip]_vars

\* ------------------------------------------- the read lock around stage 2
\* The request task holds the read lock of the server: processFiltering-
\* BeforeRequest takes it before the filter runs and releases it when
\* filterDNSRequest has returned, so it is held while genBlockedHost waits
\* for the answer to its lookup.
HoldsRLock == pc = "s2io"

\* Stage 2 up to the call of Resolve in genBlockedHost: under the read lock
\* CheckHost returned a safe-browsing or parental verdict whose block host
\* has to be looked up, and the lookup is sent.
filterDNSRequestLookup ==
    /\ pc = "s2"
    /\ conf.ProtectionEnabled /\ dnsFilter
    /\ lastStage' = 2
    /\ protectionEnabled' = TRUE
    /\ \E v \in CheckHostResults :
         /\ v.IsFiltered /\ NeedsLookup(req, v)
         /\ result' = v
    /\ calls' = Called("checkHost")
    /\ pc' = "s2io"
    /\ UNCHANGED <<srvVars, addr, req, res, origResp, origQuestion, err,
                   responseFromUpstream, origReqDNSSEC, clientReq, upstreamRes,
                   stage5In, lookupOut>>

\* The rest of stage 2: the lookup returns, genDNSFilterMessage builds the
\* response, and the read lock is released.
filterDNSRequestReturn ==
    /\ pc = "s2io"
    /\ \E lookup \in LookupOutcomes :
         /\ res' = genDNSFilterMessage(req, result, lookup)
         /\ lookupOut' = lookup
    /\ calls' = Called("lookup")
    /\ pc' = AfterStage("resultDone", "s3")
    /\ UNCHANGED <<srvVars, addr, req, result, origResp, origQuestion, err,
                   protectionEnabled, responseFromUpstream, origReqDNSSEC,
                   clientReq, upstreamRes, stage5In, lastStage>>

\* A task calls Close and waits in s.Lock().
CloseCall(t, max) ==
    /\ task[t].op = "none" /\ task[t].at = "idle"
    /\ task[t].n < max
    /\ task' = [task EXCEPT ![t] = [@ EXCEPT !.op = "Close", !.at = "lock",
                                             !.n = @ + 1]]
    /\ UNCHANGED <<conf, dnsProxy, access, internalProxy, proxyConfig, isRunning,
                   webRegistered, registered, lock, seen, reqVars>>

\* s.Lock() returns once no request task holds the read lock; Close drops
\* the four collaborators and unlocks.
CloseLocked(t) ==
    /\ task[t].op = "Close" /\ task[t].at = "lock"
    /\ ~HoldsRLock /\ lock = 0
    /\ dnsFilter' = FALSE /\ stats' = FALSE /\ queryLog' = FALSE /\ dnsProxy' = FALSE
    /\ task' = Return(t, "nil", "none")
    /\ UNCHANGED <<conf, access, internalProxy, proxyConfig, isRunning,
                   webRegistered, registered, lock, seen, pc, addr, ctxVars,
                   histVars, workerVars>>

InitRLock ==
    /\ \E c \in GateConfs : Running(c, InitAccess({}, {}, {}))
    /\ NoRequest
    /\ NoLifecycleCall
    /\ NoWorker

NextRLock ==
    \/ handleDNSRequest
    \/ processInitial
    \/ processFilteringBeforeRequest /\ calls'.lookup = calls.lookup
    \/ filterDNSRequestLookup
    \/ filterDNSRequestReturn
    \/ processUpstream
    \/ processDNSSECAfterResponse
    \/ processFilteringAfterResponse
    \/ processQueryLogsAndStats
    \/ \E t \in LifeTasks : CloseCall(t, MaxRaceCalls) \/ CloseLocked(t)

\* The pipeline with the lookup of stage 2 as a step of its own, next to a
\* caller of Close.
SpecRLock == InitRLock /\ [][NextRLock]_vars

\* ------------------------------------------------ response-side filtering
\* A rule list that blocks one address and the canonical host.
FixedRules == [any |-> FALSE, blocked |-> {IP4.addr, CanonHost.base}]

\* The records of the responses stage 5 is applied to: an address no rule
\* blocks and one a rule blocks, a CNAME to the blocked host, an AAAA record
\* no rule blocks, and an MX record that names the blocked host.
RespRRs(name) ==
    { RR("A", name, UpstreamIP),
      RR("A", name, IP4),
      RR("CNAME", name, Fqdn(CanonHost)),
      RR("AAAA", name, IP6),
      RR("MX", name, Fqdn(CanonHost)) }

\* What Resolve left in d.Res for the request r.
RespResponses(r) ==
    { [id |-> r.id, rcode |-> "NoError", ra |-> TRUE, compress |-> FALSE,
       q |-> r.q, answer |-> a, ns |-> <<>>, opt |-> "none", by |-> "upstream"] :
      a \in SeqsUpTo(RespRRs(r.q.name), MaxRespLen) }

\* The verdicts of CheckHost that leave the request to the upstream: none, a
\* whitelist rule, a rewrite that has no entry for the question type, and a
\* hosts-file entry without one.
RespVerdicts ==
    { EmptyResult,
      Verdict(FALSE, "NotFilteredWhiteList", <<>>, EmptyName, EmptyName, NoIP, 10),
      Verdict(FALSE, "ReasonRewrite", <<>>, EmptyName, EmptyName, NoIP, 0),
      Verdict(FALSE, "RewriteEtcHosts", <<>>, EmptyName, EmptyName, NoIP, 0) }

\* The requests of SpecResp: an A or AAAA question without an OPT record.
RespRequests ==
    { r \in Requests : r.q.name = HostName /\ r.q.qtype \in {"A", "AAAA"}
                       /\ r.opt = "none" }

\* The dnsContext as stage 4 leaves it for a request the filter let through
\* and the upstream answered, protection being enabled.
InitResp ==
    /\ \E c \in { g \in GateConfs : ~g.EnableDNSSEC } :
          Running(c, InitAccess({}, {}, {}))
    /\ NoLifecycleCall
    /\ NoWorker
    /\ pc = "s5"
    /\ \E r \in RespRequests :
          /\ req = r /\ clientReq = r
          /\ \E up \in RespResponses(r) : res = up /\ upstreamRes = up
    /\ result \in RespVerdicts
    /\ origResp = NoMsg
    /\ origQuestion = ZeroQuestion
    /\ err = FALSE
    /\ protectionEnabled = TRUE
    /\ responseFromUpstream = TRUE
    /\ origReqDNSSEC = FALSE
    /\ stage5In = NoMsg
    /\ lastStage = 4
    /\ calls = [NoCalls EXCEPT !.checkHost = 1, !.resolve = 1]
    /\ lookupOut = [err |-> FALSE, res |-> NoMsg]
    /\ addr = DefaultAddr

NextResp ==
    \/ processFilteringAfterResponseWith(FixedRules)
    \/ processQueryLogsAndStats

\* Stages 5 and 6 on the response of an upstream, the filter working with a
\* fixed rule list.
SpecResp == InitResp /\ [][NextResp]_vars

\* ------------------------------------------------- the lifecycle with Close
NextClose ==
    \/ NextLife
    \/ \E t \in LifeTasks : CloseCall(t, MaxLifeCalls) \/ CloseLocked(t)

\* The lifecycle calls of one caller, Close among them.
SpecClose == InitLife /\ [][NextClose]_vars

\* ------------------------------------------------------ the side-effect hook
\* The three early returns of ProcessDNSResult: it goes on for a response
\* with answers and an unfiltered NotFilteredWhiteList verdict of a filter
\* list with an ID of 10 or more.
HookGate(r, resp) ==
    /\ Len(resp.answer) # 0
    /\ ~(r.IsFiltered \/ r.Reason # "NotFilteredWhiteList")
    /\ ~(r.FilterID < 10)

\* A switch over the record type without its default case.
HookSkips_Never(a) == FALSE

\* The default case of the switch over the record type: continue.
HookSkips(a) == a.type # "A"

\* The loop of ProcessDNSResult from answer i: `ip` is the variable declared
\* ahead of the loop, c the cache, cmds the commands issued so far.  The
\* commands for the answers of `fails` return an error.  An A record whose
\* address is in the cache is passed over; a command that succeeded puts its
\* address into the cache.
RECURSIVE ProcessDNSResultLoop(_, _, _, _, _, _)
ProcessDNSResultLoop(answers, i, ip, c, cmds, fails) ==
    IF i > Len(answers) THEN [cache |-> c, cmds |-> cmds]
    ELSE LET a == answers[i]
             ip2 == IF a.type = "A" THEN a.data.addr ELSE ip
         IN  IF a.type = "A" /\ ip2 \in c
               THEN ProcessDNSResultLoop(answers, i + 1, ip2, c, cmds, fails)
             ELSE IF HookSkips(a)
               THEN ProcessDNSResultLoop(answers, i + 1, ip2, c, cmds, fails)
             ELSE IF i \in fails
               THEN ProcessDNSResultLoop(answers, i + 1, ip2, c,
                        Append(cmds, [at |-> i, ip |-> ip2, ok |-> FALSE]), fails)
             ELSE ProcessDNSResultLoop(answers, i + 1, ip2, c \cup {ip2},
                        Append(cmds, [at |-> i, ip |-> ip2, ok |-> TRUE]), fails)

\* worker.ProcessDNSResult(ctx.result, d.Res), as stage 6 calls it.
ProcessDNSResult ==
    /\ pc = "s6" /\ ~hookLog.ran
    /\ \E fails \in SUBSET (1..Len(res.answer)) :
         LET out == IF HookGate(result, res)
                      THEN ProcessDNSResultLoop(res.answer, 1, "", cache, <<>>, fails)
                      ELSE [cache |-> cache, cmds |-> <<>>]
         IN  /\ cache' = out.cache
             /\ hookLog' = [ran |-> TRUE, before |-> cache, cmds |-> out.cmds]
    /\ UNCHANGED <<conf, dnsFilter, queryLog, stats, dnsProxy, access,
                   internalProxy, proxyConfig, isRunning, webRegistered,
                   registered, lock, task, seen, manager, managerLog, pc, addr,
                   ctxVars, histVars>>

\* The records of the responses the hook is called with.
HookRRs(name) ==
    { RR("A", name, UpstreamIP),
      RR("A", name, IP4),
      RR("CNAME", name, Fqdn(CanonHost)),
      RR("AAAA", name, IP6),
      RR("RRSIG", name, "sig") }

\* The verdicts the hook is called with: a whitelist rule of a user list and
\* of a system list, no match, and a blocking rule of a user list.
HookVerdicts ==
    { Verdict(FALSE, "NotFilteredWhiteList", <<>>, EmptyName, EmptyName, NoIP, 10),
      Verdict(FALSE, "NotFilteredWhiteList", <<>>, EmptyName, EmptyName, NoIP, 9),
      EmptyResult,
      Verdict(TRUE, "FilteredBlackList", <<>>, EmptyName, EmptyName, NoIP, 10) }

\* Stage 6 is about to call the hook with the verdict and the response of a
\* request; the cache holds addresses of earlier calls.
InitHook ==
    /\ \E c \in { g \in GateConfs : ~g.EnableDNSSEC } :
          Running(c, InitAccess({}, {}, {}))
    /\ lock = 0 /\ task = [t \in Tasks |-> NoTask] /\ seen = NoSeen
    /\ cache \in SUBSET {UpstreamIP.addr, IP4.addr}
    /\ hookLog = NoHookLog
    /\ manager = ZeroManager /\ managerLog = NoManagerLog
    /\ pc = "s6"
    /\ \E r \in RespRequests :
          /\ r.q.qtype = "A"
          /\ req = r /\ clientReq = r
          /\ \E a \in SeqsUpTo(HookRRs(r.q.name), MaxHookLen) :
                LET up == [id |-> r.id, rcode |-> "NoError", ra |-> TRUE,
                           compress |-> FALSE, q |-> r.q, answer |-> a,
                           ns |-> <<>>, opt |-> "none", by |-> "upstream"]
                IN  res = up /\ upstreamRes = up /\ stage5In = up
    /\ result \in HookVerdicts
    /\ origResp = NoMsg
    /\ origQuestion = ZeroQuestion
    /\ err = FALSE
    /\ protectionEnabled = TRUE
    /\ responseFromUpstream = TRUE
    /\ origReqDNSSEC = FALSE
    /\ lastStage = 5
    /\ calls = [NoCalls EXCEPT !.checkHost = 1, !.resolve = 1]
    /\ lookupOut = [err |-> FALSE, res |-> NoMsg]
    /\ addr = DefaultAddr

NextHook == ProcessDNSResult

\* The hook called once with a verdict and a response.
SpecHook == InitHook /\ [][NextHook]_vars

\* --------------------------------------------------------- the RuleManager
\* The rules the callers work with, in the order Go compares strings.
RuleNames == <<"ads.example", "cdn.example", "web.example">>

\* Where a rule stands in that order.
RuleRank(x) == CHOOSE i \in 1..Len(RuleNames) : RuleNames[i] = x

\* sort.SearchStrings(items, x): the smallest 0-based index whose item is not
\* less than x, the length of the list where there is none.
SearchStrings(items, x) ==
    LET ge == { i \in 1..Len(items) : RuleRank(items[i]) >= RuleRank(x) }
    IN  IF ge = {} THEN Len(items)
        ELSE (CHOOSE i \in ge : \A k \in ge : i <= k) - 1

\* sort.Strings(items).
RECURSIVE SortStrings(_)
SortStrings(items) ==
    IF items = <<>> THEN <<>>
    ELSE LET x == items[Len(items)]
             s == SortStrings(SubSeq(items, 1, Len(items) - 1))
             k == Cardinality({ i \in 1..Len(s) : RuleRank(s[i]) <= RuleRank(x) })
         IN  SubSeq(s, 1, k) \o <<x>> \o SubSeq(s, k + 1, Len(s))

\* RuleManager.Has: the index of the search compared with rules.size, a
\* field nothing writes.
Has(rules, item) == SearchStrings(rules.items, item) # rules.size

\* A call made to the RuleManager, as the log records it.
ManagerCall(op, item, ret, panic, now) ==
    [present |-> now, was |-> managerLog.present, op |-> op, item |-> item,
     ret |-> ret, before |-> manager.items, panic |-> panic]

\* manager.Has(x).
RuleManagerHas ==
    /\ ~managerLog.panic
    /\ \E x \in { RuleNames[i] : i \in 1..Len(RuleNames) } :
         managerLog' = ManagerCall("Has", x, Has(manager, x), FALSE, managerLog.present)
    /\ UNCHANGED <<conf, dnsFilter, queryLog, stats, dnsProxy, access,
                   internalProxy, proxyConfig, isRunning, webRegistered,
                   registered, lock, task, seen, pc, addr, ctxVars, histVars,
                   cache, hookLog, manager>>

\* manager.Append(x): false where Has(x), otherwise x is appended and the
\* list sorted.
RuleManagerAppend ==
    /\ ~managerLog.panic
    /\ \E x \in { RuleNames[i] : i \in 1..Len(RuleNames) } :
         /\ Has(manager, x) \/ Len(manager.items) < MaxRules
         /\ IF Has(manager, x)
              THEN manager' = manager
              ELSE manager' = [manager EXCEPT
                                 !.items = SortStrings(Append(manager.items, x))]
         /\ managerLog' = ManagerCall("Append", x, ~Has(manager, x), FALSE,
                                   managerLog.present \cup {x})
    /\ UNCHANGED <<conf, dnsFilter, queryLog, stats, dnsProxy, access,
                   internalProxy, proxyConfig, isRunning, webRegistered,
                   registered, lock, task, seen, pc, addr, ctxVars, histVars,
                   cache, hookLog>>

\* manager.Remove(x): false where the index of the search is rules.size;
\* otherwise the item at the index is cut out, and where the index is the
\* length of the list the slice expression items[index+1:] panics.
RuleManagerRemove ==
    /\ ~managerLog.panic
    /\ \E x \in { RuleNames[i] : i \in 1..Len(RuleNames) } :
         LET index == SearchStrings(manager.items, x)
             gone == managerLog.present \ {x}
         IN  IF index = manager.size
               THEN /\ manager' = manager
                    /\ managerLog' = ManagerCall("Remove", x, FALSE, FALSE, gone)
             ELSE IF index + 1 > Len(manager.items)
               THEN /\ manager' = manager
                    /\ managerLog' = ManagerCall("Remove", x, FALSE, TRUE, gone)
             ELSE /\ manager' = [manager EXCEPT
                        !.items = SubSeq(manager.items, 1, index)
                                  \o SubSeq(manager.items, index + 2, Len(manager.items))]
                  /\ managerLog' = ManagerCall("Remove", x, TRUE, FALSE, gone)
    /\ UNCHANGED <<conf, dnsFilter, queryLog, stats, dnsProxy, access,
                   internalProxy, proxyConfig, isRunning, webRegistered,
                   registered, lock, task, seen, pc, addr, ctxVars, histVars,
                   cache, hookLog>>

NextRules ==
    \/ RuleManagerHas
    \/ RuleManagerAppend
    \/ RuleManagerRemove

\* The calls of one caller to the RuleManager of package worker, from the
\* zero value.
SpecRules == InitLife /\ [][NextRules]_vars

\* ------------------------------------------------------------------ claims
\* handleDNSRequest has returned nil.
Returned == pc = "done"

\* The request the client sent is an A or AAAA question for the canary name.
CanaryRequest ==
    /\ clientReq # NoMsg
    /\ clientReq.q.name = CanaryName
    /\ clientReq.q.qtype \in {"A", "AAAA"}

HasRRSIG(rrs) == \E i \in 1..Len(rrs) : rrs[i].type = "RRSIG"

RRSIGsOf(rrs) == SelectSeq(rrs, LAMBDA a : a.type = "RRSIG")

C2_SynthesizedFlags ==
    (Returned /\ res # NoMsg /\ res.by = "core") => (res.ra /\ res.compress)

\* C3: with EnableDNSSEC set and no DO bit in the client's request, an
\* upstream-originated response holds no RRSIG in Answer or Ns once stage 4
\* has run.
C3_NoRRSIGWithoutDO ==
    (/\ lastStage >= 4
     /\ responseFromUpstream
     /\ conf.EnableDNSSEC
     /\ clientReq.opt # "do1")
    => (~HasRRSIG(res.answer) /\ ~HasRRSIG(res.ns))

\* C4: with EnableDNSSEC set and the DO bit in the client's request, stage 3
\* records origReqDNSSEC and the response the client gets from upstream still
\* holds every RRSIG the upstream returned, in Answer and in Ns.
C4_KeepsRRSIGWithDO ==
    (/\ lastStage >= 4
     /\ responseFromUpstream
     /\ conf.EnableDNSSEC
     /\ clientReq.opt = "do1"
     /\ res.by = "upstream")
    => /\ origReqDNSSEC
       /\ RRSIGsOf(res.answer) = RRSIGsOf(upstreamRes.answer)
       /\ RRSIGsOf(res.ns) = RRSIGsOf(upstreamRes.ns)

\* C5 as stated: an A or AAAA question for the canary name gets rcode
\* NameError under every configuration, and no upstream Resolve is made.
C5_CanaryAlwaysNXDomain ==
    CanaryRequest =>
        /\ calls.resolve = 0 /\ calls.lookup = 0
        /\ lastStage >= 1 => (Returned /\ res.rcode = "NameError")

\* C5 amended: an A or AAAA question for the canary name ends in stage 1
\* without any upstream Resolve; its rcode is NameError, except for an AAAA
\* question while AAAADisabled is set, which gets the empty NoError reply.
C5_CanaryNXDomainUnlessDisabledAAAA ==
    CanaryRequest =>
        /\ calls.resolve = 0 /\ calls.lookup = 0
        /\ lastStage >= 1 =>
             /\ Returned /\ lastStage = 1
             /\ IF conf.AAAADisabled /\ clientReq.q.qtype = "AAAA"
                  THEN res.rcode = "NoError" /\ res.answer = <<>>
                  ELSE res.rcode = "NameError"

\* C5 witness: the canary asked as AAAA, with protection on, answered NameError.
C5_Witness ==
    /\ CanaryRequest /\ Returned
    /\ clientReq.q.qtype = "AAAA" /\ conf.ProtectionEnabled
    /\ res.rcode = "NameError"

\* C6: an AAAA question while AAAADisabled is set ends in stage 1 with an
\* empty answer and no error, and no call is made to the filter, the
\* upstream, the query log, the hook or stats.
C6_DisabledAAAAFinishesInStage1 ==
    (/\ clientReq # NoMsg
     /\ clientReq.q.qtype = "AAAA"
     /\ conf.AAAADisabled
     /\ lastStage >= 1)
    => /\ Returned /\ lastStage = 1 /\ ~err
       /\ res # NoMsg /\ res.answer = <<>> /\ res.rcode = "NoError"
       /\ calls = NoCalls

\* C6 witness: such a request has returned.
C6_Witness ==
    /\ Returned /\ clientReq.q.qtype = "AAAA" /\ conf.AAAADisabled
    /\ clientReq.q.name = HostName /\ conf.ProtectionEnabled

\* The verdict is a rewrite to a canonical name with no addresses.
CanonOnlyRewrite ==
    /\ result # NoResult
    /\ result.Reason = "ReasonRewrite"
    /\ result.CanonName # EmptyName
    /\ result.IPList = <<>>

C8_CoreResponseMirrorsQuestion ==
    (Returned /\ res.by = "core") =>
        /\ res.q = clientReq.q
        /\ (/\ result.Reason \in {"ReasonRewrite", "RewriteEtcHosts"}
            /\ result.IPList # <<>>)
           => /\ req.q = clientReq.q
              /\ res.answer = RewriteResponse(clientReq, result).answer

C10_NoLogForRefusedAny ==
    (clientReq # NoMsg /\ clientReq.q.qtype = "ANY" /\ conf.RefuseAny)
    => (calls.queryLog = 0 /\ calls.hook = 0)

\* The position of the request at the start of each of the six stages.
StagePcs == <<"s1", "s2", "s3", "s4", "s5", "s6">>

\* C11: the stages of one request run in the order 1..6, each at most once:
\* a stage runs only from its own position, right after the stage before it;
\* a stage that sets ctx.err ends the pipeline with that error; and once the
\* pipeline has returned, with success or with the error, no stage runs and
\* nothing of the request's context changes.
C11_StagesInOrder ==
    [][ /\ lastStage' # lastStage =>
             /\ lastStage' = lastStage + 1
             /\ pc = StagePcs[lastStage']
        /\ (pc' # pc /\ pc' \in {"s2", "s3", "s4", "s5", "s6"}) =>
             /\ lastStage' = lastStage + 1
             /\ pc' = StagePcs[lastStage' + 1]
        /\ err' # err => (err' /\ pc' = "error")
        /\ (pc' = "error" /\ pc # "error") => err'
        /\ (pc' = "done" /\ pc # "done") => (~err' /\ lastStage' \in {1, 6})
        /\ pc \in {"done", "error"} => UNCHANGED <<pc, ctxVars, histVars>>
      ]_vars

\* C11 witness: stage 5 returned Error after the four stages before it ran.
C11_Witness == pc = "error" /\ lastStage = 5 /\ err /\ calls.resolve = 1

\* genDNSFilterMessage has just built the response: in stage 2 for a
\* filtered verdict, or in stage 5 for an answer the filter matched.
FilterMessageBuilt ==
    \/ lastStage = 2 /\ pc = "s3" /\ result.IsFiltered
    \/ lastStage = 5 /\ pc = "s6" /\ origResp # NoMsg

\* The response is NXDOMAIN for the request, with one SOA in authority.
IsNXDomain(m) ==
    /\ m.rcode = "NameError" /\ m.answer = <<>>
    /\ Len(m.ns) = 1 /\ m.ns[1].type = "SOA" /\ m.ns[1].name = req.q.name

\* The response answers the request with exactly one record of the type.
HasOneRecord(m, type, ip) ==
    /\ m.rcode = "NoError" /\ m.ns = <<>>
    /\ m.answer = <<RR(type, req.q.name, ip)>>

\* The response gen_response_with_ip makes of an address: an A record for an
\* A question and an address with a 4-byte form, an AAAA record for an AAAA
\* question and a 16-byte address without one, else no answer.
IsResponseWithIP(m, ip) ==
    IF req.q.qtype = "A" /\ ip.v4 THEN HasOneRecord(m, "A", ip)
    ELSE IF req.q.qtype = "AAAA" /\ ip.len = 16 /\ ~ip.v4 THEN HasOneRecord(m, "AAAA", ip)
    ELSE m.rcode = "NoError" /\ m.answer = <<>> /\ m.ns = <<>>

\* The verdicts whose response does not depend on the blocking mode.
ModeIndependent(r) ==
    \/ r.Reason \in {"FilteredSafeBrowsing", "FilteredParental"}
    \/ r.Reason = "FilteredSafeSearch" /\ r.IP # NoIP

\* C12: the response genDNSFilterMessage builds follows the decision table:
\* NXDOMAIN for a question that is neither A nor AAAA; otherwise, for a
\* verdict that depends on the blocking mode, one A 0.0.0.0 or AAAA :: under
\* null_ip, the configured address under custom_ip, NXDOMAIN with an SOA
\* under nxdomain, and under default the response made of verdict.ip when
\* there is one, else NXDOMAIN.
C12_BlockModeTable ==
    FilterMessageBuilt =>
        IF req.q.qtype \notin {"A", "AAAA"} THEN IsNXDomain(res)
        ELSE IF ModeIndependent(result) THEN TRUE
        ELSE CASE conf.BlockingMode = "null_ip" ->
                    IF req.q.qtype = "A" THEN HasOneRecord(res, "A", IPv4zero)
                    ELSE HasOneRecord(res, "AAAA", IPv6zero)
               [] conf.BlockingMode = "custom_ip" ->
                    IF req.q.qtype = "A"
                      THEN HasOneRecord(res, "A", CustomIPv4)
                      ELSE HasOneRecord(res, "AAAA", CustomIPv6)
               [] conf.BlockingMode = "nxdomain" -> IsNXDomain(res)
               [] OTHER ->
                    IF result.IP # NoIP THEN IsResponseWithIP(res, result.IP)
                    ELSE IsNXDomain(res)

\* C12 witness: an ANY question blocked by a rule that carries an address,
\* under null_ip, answered NXDOMAIN.
C12_Witness ==
    /\ FilterMessageBuilt /\ req.q.qtype = "ANY"
    /\ result.Reason = "FilteredBlackList" /\ result.IP # NoIP
    /\ conf.BlockingMode = "null_ip" /\ res.rcode = "NameError"

\* C13: for an A or AAAA question, whatever the blocking mode, a
\* FilteredSafeBrowsing verdict yields the substitution of
\* SafeBrowsingBlockHost, a FilteredParental verdict that of
\* ParentalBlockHost, and a FilteredSafeSearch verdict with an address the
\* response made of that address.
C13_ModeIndependentVerdicts ==
    (FilterMessageBuilt /\ req.q.qtype \in {"A", "AAAA"}) =>
        /\ result.Reason = "FilteredSafeBrowsing" =>
             /\ calls.lookup = 1
             /\ res = genBlockedHost(req, conf.SafeBrowsingBlockHost, lookupOut)
        /\ result.Reason = "FilteredParental" =>
             /\ calls.lookup = 1
             /\ res = genBlockedHost(req, conf.ParentalBlockHost, lookupOut)
        /\ (result.Reason = "FilteredSafeSearch" /\ result.IP # NoIP) =>
             IsResponseWithIP(res, result.IP)

\* C13 witness: a safe-search verdict with an address answered with that
\* address under the nxdomain blocking mode.
C13_Witness ==
    /\ FilterMessageBuilt /\ req.q.qtype = "A"
    /\ result.Reason = "FilteredSafeSearch" /\ result.IP = IP4
    /\ conf.BlockingMode = "nxdomain"
    /\ res.answer = <<RR("A", req.q.name, IP4)>>

\* genDNSFilterMessage has just substituted a block host that is no literal
\* address.
BlockHostSubstituted ==
    /\ FilterMessageBuilt /\ req.q.qtype \in {"A", "AAAA"}
    /\ \/ result.Reason = "FilteredSafeBrowsing" /\ conf.SafeBrowsingBlockHost.ip = NoIP
       \/ result.Reason = "FilteredParental" /\ conf.ParentalBlockHost.ip = NoIP

\* C14: when the lookup of the block host fails the stage goes on without
\* error and the response is SERVFAIL; when it succeeds every answer carries
\* the name of the client's question; either way the response is a reply to
\* the client's request.
C14_BlockedHostLookup ==
    BlockHostSubstituted =>
        /\ ~err /\ calls.lookup = 1
        /\ res.id = clientReq.id /\ res.q = clientReq.q
        /\ IF lookupOut.err
             THEN res.rcode = "ServerFailure" /\ res.answer = <<>>
             ELSE /\ res.rcode = "NoError"
                  /\ \A i \in 1..Len(res.answer) :
                        res.answer[i].name = clientReq.q.name
                  /\ lookupOut.res # NoMsg =>
                        Len(res.answer) = Len(lookupOut.res.answer)

\* C14 witness: the lookup returned an address under the block host's name
\* and the response carries it under the client's.
C14_Witness ==
    /\ BlockHostSubstituted /\ ~lookupOut.err /\ lookupOut.res # NoMsg
    /\ Len(lookupOut.res.answer) = 1
    /\ lookupOut.res.answer[1].name # clientReq.q.name
    /\ res.answer = <<RR("A", clientReq.q.name, BlockHostIP)>>

\* A stage called a method of a collaborator that is nil: processUpstream
\* calls s.dnsProxy.Resolve after Close.
NilDereference == pc = "panic" /\ lastStage = 3 /\ ~dnsProxy

\* C18: in every interleaving of a request with Close, the request never
\* dereferences a nil collaborator.
C18_NoNilDereference == ~NilDereference

\* The access controller blocks the client or the name of the question.
GateBlocks(r, ip) ==
    \/ IsBlockedIP(access, ip)
    \/ IsBlockedDomain(access, TrimSuffixDot(r.q.name))

\* C20: a request the gate dropped is one whose client or question name the
\* access controller blocks; it has no error and no response, and no stage
\* and no collaborator ran for it.  A request behind the gate is one the
\* access controller does not block.
C20_AccessGate ==
    /\ pc = "dropped" =>
         /\ GateBlocks(req, addr)
         /\ res = NoMsg /\ ~err
         /\ lastStage = 0 /\ calls = NoCalls /\ clientReq = NoMsg
    /\ pc = "admitted" => ~GateBlocks(req, addr)
    /\ pc \notin {"idle", "dropped", "admitted"} => ~GateBlocks(clientReq, addr)

\* C20 witness: a request from a client that is not blocked was dropped for
\* the name of its question, which ends with a dot in the request and has
\* none in the list.
C20_Witness ==
    /\ pc = "dropped" /\ ~IsBlockedIP(access, addr)
    /\ req.q.name = HostName /\ HostName \notin access.blockedHosts

\* Task t has returned from a call of Reconfigure with an error.
ReconfigureFailed(t) ==
    /\ task[t].op = "none"
    /\ task[t].last = "Reconfigure"
    /\ task[t].ret = "error"

\* C15: whenever Reconfigure returns an error, whichever of Stop, Prepare and
\* Start failed, the server is left stopped: isRunning is false after the
\* call.
C15_ReconfigureErrorLeavesStopped ==
    \A t \in LifeTasks : ReconfigureFailed(t) => ~isRunning

\* Task t has returned from a direct call of Prepare in custom_ip mode.
PrepareReturned(t) ==
    /\ task[t].op = "none"
    /\ task[t].last = "Prepare"
    /\ task[t].config.BlockingMode = "custom_ip"

\* One of the two address strings of the configuration is no IP address.
ParseFails(c) == ParseIP(c.BlockingIPv4) = NoIP \/ ParseIP(c.BlockingIPv6) = NoIP

\* The proxies and the access controller of the server are the ones the
\* call of task t found on entry.
NothingConstructed(t) ==
    /\ internalProxy = task[t].pre.internalProxy
    /\ proxyConfig = task[t].pre.proxyConfig
    /\ dnsProxy = task[t].pre.dnsProxy
    /\ access = task[t].pre.access

\* C16 as stated: Prepare in custom_ip mode returns an error if and only if
\* BlockingIPv4 or BlockingIPv6 fails to parse; in that case no new primary
\* proxy, internal proxy or access controller is constructed, and on success
\* both parsed addresses are non-nil.
C16_ErrorIffParseFails ==
    \A t \in LifeTasks : PrepareReturned(t) =>
        /\ (task[t].ret = "error") <=> ParseFails(task[t].config)
        /\ ParseFails(task[t].config) => NothingConstructed(t)
        /\ task[t].ret = "nil" =>
               conf.BlockingIPAddrv4 # NoIP /\ conf.BlockingIPAddrv6 # NoIP

\* C16: Prepare in custom_ip mode returns the invalid-custom-address error
\* if and only if BlockingIPv4 or BlockingIPv6 fails to parse, and then no
\* new primary proxy, internal proxy or access controller is constructed; it
\* may return other errors from its later steps; when it returns nil both
\* parsed addresses are non-nil.
C16_CustomIPErrorIffParseFails ==
    \A t \in LifeTasks : PrepareReturned(t) =>
        /\ (task[t].failed = "custom_ip") <=> ParseFails(task[t].config)
        /\ task[t].failed = "custom_ip" =>
               task[t].ret = "error" /\ NothingConstructed(t)
        /\ task[t].ret = "nil" =>
               conf.BlockingIPAddrv4 # NoIP /\ conf.BlockingIPAddrv6 # NoIP

\* Prepare rejected an IPv6 string that is no address, on a server an
\* earlier Prepare had built the proxies and the access controller of.
C16_Witness ==
    \E t \in LifeTasks :
        /\ PrepareReturned(t)
        /\ task[t].failed = "custom_ip"
        /\ ParseIP(task[t].config.BlockingIPv4) # NoIP
        /\ task[t].pre.dnsProxy
        /\ task[t].pre.access.init

\* C17: over any interleaving of Prepare and Reconfigure calls with
\* HTTPRegister configured, registerHandlers is invoked exactly once per
\* process: never twice, and once when a Prepare has passed step 6.
C17_RegisterHandlersOnce ==
    /\ registered <= 1
    /\ webRegistered => registered = 1

\* C19: no request task observes a partially applied Prepare: what
\* beforeRequestHandler reads of s.access is a controller Init has filled,
\* and the configuration processUpstream reads is the one the proxy it
\* reads was built from.
C19_NoPartialPrepareObserved ==
    /\ seen.stage = "beforeRequestHandler" => seen.access.init
    /\ seen.stage = "processUpstream" => seen.proxyConfig = seen.conf

\* The index in rrs of its j-th record that is no RRSIG.
NthKept(rrs, j) ==
    CHOOSE i \in 1..Len(rrs) :
        /\ rrs[i].type # "RRSIG"
        /\ Cardinality({k \in 1..i : rrs[k].type # "RRSIG"}) = j

\* out holds the records of rrs that are no RRSIG, each once, in the order
\* they have in rrs.
IsNonRRSIGSubsequence(out, rrs) ==
    /\ Len(out) = Cardinality({k \in 1..Len(rrs) : rrs[k].type # "RRSIG"})
    /\ \A j \in 1..Len(out) : out[j] = rrs[NthKept(rrs, j)]

\* C21: where processDNSSECAfterResponse strips, Answer and Ns are after one
\* application exactly the non-RRSIG records of the upstream response in
\* their original order, and a second application of the stage leaves the
\* message as the first left it.
C21_StripIdempotentOrdered ==
    /\ (pc = "s5" /\ lastStage = 4 /\ ~SkipDNSSECStrip) =>
           /\ IsNonRRSIGSubsequence(res.answer, upstreamRes.answer)
           /\ IsNonRRSIGSubsequence(res.ns, upstreamRes.ns)
    /\ (pc = "s5" /\ lastStage = 4 /\ stage5In # NoMsg) => res = stage5In

\* The stage ran twice on a response with a signature between two different
\* records in Answer and a signature in Ns, and stripped.
C21_Witness ==
    /\ pc = "s5" /\ lastStage = 4 /\ stage5In # NoMsg
    /\ ~SkipDNSSECStrip
    /\ Len(upstreamRes.answer) = 3
    /\ upstreamRes.answer[1].type = "A"
    /\ upstreamRes.answer[2].type = "RRSIG"
    /\ upstreamRes.answer[3].type = "CNAME"
    /\ HasRRSIG(upstreamRes.ns)
    /\ Len(res.answer) = 2

\* C22: every lookup of a substitution host goes through the internal
\* resolver and none through the primary proxy, whose Resolve is invoked at
\* most once for a request, in stage 3, and not when an earlier stage set
\* the response.
C22_LookupsUseInternalResolver ==
    /\ InternalResolves = calls.lookup
    /\ PrimaryResolves <= 1
    /\ lastStage < 3 => PrimaryResolves = 0
    /\ PrimaryResolves = 1 => upstreamRes # NoMsg \/ err

\* C23: a request task never holds the read lock of the server while it
\* waits for an upstream (the Resolve of stage 3 or the lookup of a block
\* host), so no writer waits in Lock for an upstream round trip.
C23_NoWriterWaitsForUpstream ==
    ~(HoldsRLock /\ \E t \in LifeTasks : task[t].at = "lock")

\* The answers of d.Res that filterDNSResponse checks and the rule list of
\* SpecResp blocks.
FilteredAnswers ==
    { i \in 1..Len(res.answer) :
        /\ res.answer[i].type \in {"CNAME", "A", "AAAA"}
        /\ RRHost(res.answer[i]) \in FixedRules.blocked }

\* The CNAME, A and AAAA answers of d.Res up to answer k.
CheckedUpTo(k) ==
    { i \in 1..k : res.answer[i].type \in {"CNAME", "A", "AAAA"} }

\* Stage 5 runs and returns Done.
Stage5Done == pc = "s5" /\ pc' = "s6"

\* C24: in stage 5, for a verdict that is neither a rewrite with a canonical
\* name nor NotFilteredWhiteList, with protection enabled and a response of
\* the upstream, the answers are checked in order up to the first CNAME, A or
\* AAAA answer that is filtered: the response becomes the block response for
\* its result, the verdict that result, origResp the upstream response; with
\* no such answer the response is unchanged, the verdict an empty Result and
\* origResp unset.  For NotFilteredWhiteList neither response nor verdict
\* changes.
C24_ResponseSideFiltering ==
    [][Stage5Done =>
        IF result.Reason = "NotFilteredWhiteList"
          THEN res' = res /\ result' = result
        ELSE IF result.Reason = "ReasonRewrite" /\ result.CanonName # EmptyName
          THEN TRUE
        ELSE (protectionEnabled /\ responseFromUpstream) =>
          IF FilteredAnswers # {}
            THEN LET first == CHOOSE i \in FilteredAnswers :
                                  \A k \in FilteredAnswers : i <= k
                 IN  /\ result' \in CheckHostRulesResults
                     /\ res' = genDNSFilterMessage(req, result', lookupOut')
                     /\ origResp' = res
                     /\ calls'.checkHostRules =
                            calls.checkHostRules + Cardinality(CheckedUpTo(first))
            ELSE /\ res' = res
                 /\ result' = EmptyResult
                 /\ origResp' = NoMsg
                 /\ calls'.checkHostRules =
                        calls.checkHostRules + Cardinality(CheckedUpTo(Len(res.answer)))
    ]_vars

\* The commands the hook issued for answer i of the response.
CmdsFor(i) == { k \in 1..Len(hookLog.cmds) : hookLog.cmds[k].at = i }

\* C25 as stated: the hook issues commands only for an unfiltered
\* NotFilteredWhiteList verdict with a filter ID of 10 or more, and then
\* exactly one for each A answer, with that answer's address, and none for
\* any other answer.
C25_CommandPerARecord ==
    hookLog.ran =>
        /\ ~HookGate(result, res) => hookLog.cmds = <<>>
        /\ HookGate(result, res) =>
              \A i \in 1..Len(res.answer) :
                  IF res.answer[i].type = "A"
                    THEN /\ Cardinality(CmdsFor(i)) = 1
                         /\ \A k \in CmdsFor(i) :
                                hookLog.cmds[k].ip = res.answer[i].data.addr
                    ELSE CmdsFor(i) = {}

\* C25: the hook issues commands only for an unfiltered NotFilteredWhiteList
\* verdict with a filter ID of 10 or more; then every command is for an A
\* answer and carries that answer's address, the commands follow the order
\* of the answers, and an A answer gets its one command exactly when its
\* address was not in the cache on entry and no earlier command of the call
\* succeeded for the same address; a command that fails stops nothing, and
\* the cache gains the addresses of the commands that succeeded.
C25_CommandPerUncachedARecord ==
    hookLog.ran =>
        /\ ~HookGate(result, res) => hookLog.cmds = <<>> /\ cache = hookLog.before
        /\ HookGate(result, res) =>
              LET cmds == hookLog.cmds
              IN  /\ \A k \in 1..Len(cmds) :
                        /\ res.answer[cmds[k].at].type = "A"
                        /\ cmds[k].ip = res.answer[cmds[k].at].data.addr
                  /\ \A k \in 1..Len(cmds), m \in 1..Len(cmds) :
                        k < m => cmds[k].at < cmds[m].at
                  /\ \A i \in 1..Len(res.answer) :
                        res.answer[i].type = "A" =>
                          (CmdsFor(i) # {} <=>
                             /\ res.answer[i].data.addr \notin hookLog.before
                             /\ ~\E k \in 1..Len(cmds) :
                                    /\ cmds[k].at < i
                                    /\ cmds[k].ok
                                    /\ cmds[k].ip = res.answer[i].data.addr)
                  /\ cache = hookLog.before
                               \cup { cmds[k].ip : k \in { m \in 1..Len(cmds) : cmds[m].ok } }

\* The hook ran over an A answer whose command failed, an answer that is no
\* A record, and a second A answer whose command succeeded.
C25_Witness ==
    /\ hookLog.ran /\ HookGate(result, res)
    /\ Len(res.answer) = 3
    /\ res.answer[1].type = "A"
    /\ res.answer[2].type \in {"CNAME", "AAAA", "RRSIG"}
    /\ res.answer[3].type = "A"
    /\ Len(hookLog.cmds) = 2
    /\ ~hookLog.cmds[1].ok
    /\ hookLog.cmds[2].ok

\* C26: the RuleManager is a sorted set of strings: the list is sorted and
\* free of duplicates and holds the rules appended and not removed since;
\* Has(x) returns true iff x is one of them; Append(x) returns false and
\* leaves the list unchanged iff x is already present; Remove(x) returns
\* true iff x is present and then deletes exactly x, and otherwise leaves
\* the list unchanged; no call fails.
C26_SortedSet ==
    LET items == manager.items
        log == managerLog
    IN  /\ ~log.panic
        /\ \A i \in 1..Len(items), k \in 1..Len(items) :
              i < k => RuleRank(items[i]) < RuleRank(items[k])
        /\ { items[i] : i \in 1..Len(items) } = log.present
        /\ log.op = "Has" => log.ret = (log.item \in log.was)
        /\ log.op = "Append" =>
              /\ log.ret = (log.item \notin log.was)
              /\ ~log.ret => items = log.before
        /\ log.op = "Remove" =>
              /\ log.ret = (log.item \in log.was)
              /\ ~log.ret => items = log.before

\* C27: while isRunning is true the primary proxy handle is set; IsRunning
\* does not report true once Close has dropped the handle.
C27_RunningHasProxy == isRunning => dnsProxy

\* Task t has returned from a call of Prepare with an error.
PrepareFailed(t) ==
    /\ task[t].op = "none"
    /\ task[t].last = "Prepare"
    /\ task[t].ret = "error"

\* C28: a Prepare call that returns an error leaves the stored
\* configuration, the access controller, the internal proxy and the primary
\* proxy of the server as they were before the call; the server does not
\* hold a configuration the call rejected, such as custom_ip with a nil
\* blocking address.
C28_FailedPrepareChangesNothing ==
    \A t \in LifeTasks : PrepareFailed(t) =>
        /\ conf = task[t].pre.conf
        /\ NothingConstructed(t)
        /\ ~(conf.BlockingMode = "custom_ip" /\ ~ValidCustomIP(conf))

====
